---- MODULE Spec2Model ----
(***************************************************************************)
(* The IP-based rate limiter of crates/utils/src/rate_limit:               *)
(* rate_limiter.rs (Bucket, BucketConfig, RateLimitedGroup,                *)
(* RateLimitStorage) driven by a clock, request checks, the periodic sweep *)
(* and configuration updates.                                              *)
(***************************************************************************)
EXTENDS Integers, Sequences, FiniteSets, TLC

VARIABLES
  now,             \* the reading of InstantSecs::now(): seconds since START_TIME
  ipv4_buckets,    \* RateLimitStorage.ipv4_buckets : Map<Ipv4Addr, ()>
  ipv6_buckets,    \* RateLimitStorage.ipv6_buckets : Map<[u8; 6], Map<u8, Map<u8, ()>>>
  bucket_configs,  \* RateLimitStorage.bucket_configs : EnumMap<ActionType, BucketConfig>
  last,            \* history: the operation that produced this state and what it saw
  nchecks,         \* history: the number of check calls so far
  nreloads,        \* history: the number of set_config calls so far
  meta,            \* history: per tracked group, its creation time and check_total calls
  nogc,            \* history: the storage the same checks build when no sweep ever runs
  call,            \* a function applied on its own: its arguments and its result
  cell,            \* LOCAL_INSTANCE of RateLimitCell::new: the OnceCell and what its init made
  tasks,           \* the tasks that call RateLimitCell::new and serve requests: their position
  mutex,           \* the Mutex around the RateLimitStorage
  sweeper          \* the task spawned by RateLimitCell::new: its position

\* the variables of the concurrency wrapper
server == <<cell, tasks, mutex, sweeper>>

vars ==
  <<now, ipv4_buckets, ipv6_buckets, bucket_configs, last, nchecks, nreloads, meta, nogc, call,
    cell, tasks, mutex, sweeper>>

----------------------------------------------------------------------------
(* Bounds of the model *)

\* the clock runs over 0 .. MaxTime
MaxTime == 2
\* at most this many configuration reloads happen
MaxReloads == 1
\* token counts and capacities of the buckets a function is applied to on its own
MaxTokens == 3
\* at most this many requests are checked
MaxChecks == 3
\* the number of tasks that call RateLimitCell::new and serve requests
MaxWorkers == 2
\* at most this many requests are served by one task
MaxCalls == 1
\* a request's source address text has at most this many parts
MaxParts == 4
\* at most this many requests are checked when the action types are used in turn
MaxBusyChecks == 6
\* the width, in bits, at which the integer types are tried up to their limits
Bits == 4

----------------------------------------------------------------------------
(* Integer helpers *)

I32Max == 2147483647

I32Min == -I32Max - 1

Min(a, b) == IF a <= b THEN a ELSE b

Max(a, b) == IF a >= b THEN a ELSE b

\* a subtraction that goes below zero
saturating_sub_signed(a, b) == a - b

\* u32::saturating_sub
saturating_sub(a, b) == IF a >= b THEN a - b ELSE 0

\* i32::saturating_mul
saturating_mul(a, b) ==
  LET p == a * b
  IN  IF p > I32Max THEN I32Max ELSE IF p < I32Min THEN I32Min ELSE p

\* i64 `/`: truncates toward zero
TruncDiv(a, b) ==
  IF (a >= 0) = (b > 0) THEN (IF a >= 0 THEN a ELSE -a) \div (IF b >= 0 THEN b ELSE -b)
  ELSE -((IF a >= 0 THEN a ELSE -a) \div (IF b >= 0 THEN b ELSE -b))

\* `as i32`: keeps the low 32 bits, read as two's complement
AsI32(x) ==
  IF x >= I32Min /\ x <= I32Max THEN x
  ELSE ((x - I32Min) % (2 * (I32Max + 1))) + I32Min

\* the largest and the smallest value of a signed integer of this many bits
IntMax(bits) == 2 * (2^(bits - 2) - 1) + 1

IntMin(bits) == -IntMax(bits) - 1

\* the largest value of an unsigned integer of this many bits
UIntMax(bits) == 2 * IntMax(bits) + 1

\* `as` to a signed integer of this many bits: keeps the low bits, read as two's
\* complement
AsInt(x, bits) ==
  IF x >= IntMin(bits) /\ x <= IntMax(bits) THEN x
  ELSE ((x - IntMin(bits)) % (2 * (IntMax(bits) + 1))) + IntMin(bits)

----------------------------------------------------------------------------
(* Types and inputs *)

\* enum ActionType
ActionType == {"Message", "Register", "Post", "Image", "Comment", "Search"}

\* the action types requests are made for (the two the test exercises)
CheckedTypes == {"Message", "Post"}

V4(a, b, c, d) == [kind |-> "V4", addr |-> <<a, b, c, d>>]

V6(octets) == [kind |-> "V6", addr |-> octets]

\* source addresses of requests: the addresses of test_rate_limiter and a second
\* IPv4 address
Ipv4Set == {V4(123, 123, 123, 123), V4(123, 123, 123, 124)}

Ipv6Set ==
  { V6(<<0, 1, 0, 2, 0, 3, 0, 0, 0, 0, 0, 0, 0, 0, 0, 0>>),
    V6(<<0, 1, 0, 2, 0, 3, 4, 0, 0, 0, 0, 0, 0, 0, 0, 0>>),
    V6(<<0, 1, 0, 2, 0, 3, 4, 5, 0, 0, 0, 0, 0, 0, 0, 0>>),
    V6(<<0, 1, 0, 2, 0, 3, 4, 5, 0, 6, 0, 0, 0, 0, 0, 0>>) }

IpSet == Ipv4Set \cup Ipv6Set

\* the clients: one IPv4 address and two IPv6 addresses of one /56
BusyIpSet ==
  {V4(123, 123, 123, 123),
   V6(<<0, 1, 0, 2, 0, 3, 4, 0, 0, 0, 0, 0, 0, 0, 0, 0>>),
   V6(<<0, 1, 0, 2, 0, 3, 4, 5, 0, 0, 0, 0, 0, 0, 0, 0>>)}

\* struct BucketConfig
BucketConfig(capacity, secs_to_refill) ==
  [capacity |-> capacity, secs_to_refill |-> secs_to_refill]

\* the configurations tried: that of test_rate_limiter, one with a single token
\* and a longer interval, and one that gives Message its own pair
ConfigSet ==
  { [t \in ActionType |-> BucketConfig(2, 1)],
    [t \in ActionType |-> BucketConfig(1, 2)],
    [t \in ActionType |-> IF t = "Message" THEN BucketConfig(1, 1) ELSE BucketConfig(2, 2)] }

----------------------------------------------------------------------------
(* Bucket *)

\* Bucket::update with u32 and i32 taken at a width of bits and i64 at twice
\* that (the product of a u32 and an i32 fits an i64 at every width); the `+`
\* wraps as it does in a build without overflow checks
update_at(bits, self, now_, config) ==
  LET secs_since_last_checked == saturating_sub(now_, self.last_checked)
      added_tokens ==
        TruncDiv(secs_since_last_checked * config.capacity, config.secs_to_refill)
      unbounded_tokens == AsInt(self.tokens + AsInt(added_tokens, bits), bits)
      tokens == Min(unbounded_tokens, config.capacity)
  IN  [last_checked |-> now_, tokens |-> tokens]

\* the `+` of Bucket::update overflows, which panics in a build with overflow
\* checks
update_add_overflows(bits, self, now_, config) ==
  LET secs_since_last_checked == saturating_sub(now_, self.last_checked)
      added_tokens ==
        TruncDiv(secs_since_last_checked * config.capacity, config.secs_to_refill)
      sum == self.tokens + AsInt(added_tokens, bits)
  IN  sum < IntMin(bits) \/ sum > IntMax(bits)

\* update with the refill computed as secs * (capacity / secs_to_refill), the
\* form the comment in the source warns against
update_divide_first(self, now_, config) ==
  LET secs_since_last_checked == saturating_sub(now_, self.last_checked)
      added_tokens ==
        secs_since_last_checked * TruncDiv(config.capacity, config.secs_to_refill)
      unbounded_tokens == self.tokens + AsI32(added_tokens)
      tokens == Min(unbounded_tokens, config.capacity)
  IN  [last_checked |-> now_, tokens |-> tokens]

\* update that does not clamp the tokens to the capacity
update_unclamped(self, now_, config) ==
  LET secs_since_last_checked == saturating_sub(now_, self.last_checked)
      added_tokens ==
        TruncDiv(secs_since_last_checked * config.capacity, config.secs_to_refill)
  IN  [last_checked |-> now_, tokens |-> self.tokens + AsI32(added_tokens)]

\* Bucket::update
update(self, now_, config) == update_at(32, self, now_, config)

\* multiply_capacity that scales the refill interval with the capacity
multiply_capacity_and_interval(self, rhs) ==
  [capacity |-> saturating_mul(self.capacity, rhs),
   secs_to_refill |-> self.secs_to_refill * rhs]

\* BucketConfig::multiply_capacity
multiply_capacity(self, rhs) ==
  [self EXCEPT !.capacity = saturating_mul(self.capacity, rhs)]

----------------------------------------------------------------------------
(* HashMap *)

\* HashMap::new(), and `()`: Default::default()
Default == <<>>

\* map.entry(k).or_insert(v), read back
or_insert(map, k, v) == IF k \in DOMAIN map THEN map[k] ELSE v

\* the map with the entry of k set to v
Put(map, k, v) == [x \in DOMAIN map \cup {k} |-> IF x = k THEN v ELSE map[x]]

\* retain_and_shrink with the keys to keep already decided
retain_and_shrink(map, keep) == [k \in DOMAIN map \cap keep |-> map[k]]

----------------------------------------------------------------------------
(* RateLimitedGroup *)

\* new with the buckets seeded empty
RateLimitedGroup_new_empty(now_, configs) ==
  [ total |-> [t \in ActionType |-> [last_checked |-> now_, tokens |-> 0]],
    children |-> Default ]

\* RateLimitedGroup::new
RateLimitedGroup_new(now_, configs) ==
  [ total |-> [t \in ActionType |-> [last_checked |-> now_, tokens |-> configs[t].capacity]],
    children |-> Default ]

\* check_total that stores the updated bucket when it rejects
check_total_store_on_reject(self, action_type, now_, config) ==
  LET bucket == self.total[action_type]
      new_bucket == update(bucket, now_, config)
  IN  IF new_bucket.tokens = 0
      THEN [group |-> [self EXCEPT !.total[action_type] = new_bucket], ok |-> FALSE]
      ELSE [group |-> [self EXCEPT !.total[action_type] =
                         [new_bucket EXCEPT !.tokens = new_bucket.tokens - 1]],
            ok |-> TRUE]

\* check_total that takes the token from the stored bucket, not from the update
check_total_consume_stale(self, action_type, now_, config) ==
  LET bucket == self.total[action_type]
      new_bucket == update(bucket, now_, config)
  IN  IF new_bucket.tokens = 0
      THEN [group |-> self, ok |-> FALSE]
      ELSE [group |-> [self EXCEPT !.total[action_type] =
                         [bucket EXCEPT !.tokens = bucket.tokens - 1]],
            ok |-> TRUE]

\* check_total that takes the token from the bucket of every action type
check_total_every_type(self, action_type, now_, config) ==
  LET bucket == self.total[action_type]
      new_bucket == update(bucket, now_, config)
  IN  IF new_bucket.tokens = 0
      THEN [group |-> self, ok |-> FALSE]
      ELSE [group |-> [self EXCEPT !.total =
                         [t \in ActionType |->
                            IF t = action_type
                            THEN [new_bucket EXCEPT !.tokens = new_bucket.tokens - 1]
                            ELSE [self.total[t] EXCEPT !.tokens = Max(0, @ - 1)]]],
            ok |-> TRUE]

\* RateLimitedGroup::check_total: the group afterwards and the returned bool
check_total(self, action_type, now_, config) ==
  LET bucket == self.total[action_type]
      new_bucket == update(bucket, now_, config)
  IN  IF new_bucket.tokens = 0
      THEN [group |-> self, ok |-> FALSE]
      ELSE [group |-> [self EXCEPT !.total[action_type] =
                         [new_bucket EXCEPT !.tokens = new_bucket.tokens - 1]],
            ok |-> TRUE]

----------------------------------------------------------------------------
(* RateLimitStorage *)

\* RateLimitStorage::new
RateLimitStorage_new(configs) ==
  [ipv4_buckets |-> Default, ipv6_buckets |-> Default, bucket_configs |-> configs]

\* split_ipv6 with the rest of the address as the third key
split_ipv6_whole(octets) == <<SubSeq(octets, 1, 6), octets[7], SubSeq(octets, 8, 16)>>

\* split_ipv6
split_ipv6(octets) == <<SubSeq(octets, 1, 6), octets[7], octets[8]>>

\* the IpAddr::V4 arm with groups keyed by the address's first three octets
check_ipv4_by_subnet(self, type_, ipv4, now_) ==
  LET config == self.bucket_configs[type_]
      key == <<ipv4[1], ipv4[2], ipv4[3], 0>>
      group == or_insert(self.ipv4_buckets, key,
                         RateLimitedGroup_new(now_, self.bucket_configs))
      r == check_total(group, type_, now_, config)
  IN  [ self |-> [self EXCEPT !.ipv4_buckets = Put(self.ipv4_buckets, key, r.group)],
        result |-> TRUE /\ r.ok ]

\* RateLimitStorage::check, the IpAddr::V4 arm
check_ipv4(self, type_, ipv4, now_) ==
  LET config == self.bucket_configs[type_]
      group == or_insert(self.ipv4_buckets, ipv4,
                         RateLimitedGroup_new(now_, self.bucket_configs))
      r == check_total(group, type_, now_, config)
  IN  [ self |-> [self EXCEPT !.ipv4_buckets = Put(self.ipv4_buckets, ipv4, r.group)],
        result |-> TRUE /\ r.ok ]

\* the IpAddr::V6 arm returning the outcome of the /64 level alone
check_ipv6_last_level(self, type_, ipv6, now_) ==
  LET config == self.bucket_configs[type_]
      key == split_ipv6(ipv6)
      group_48 == or_insert(self.ipv6_buckets, key[1],
                            RateLimitedGroup_new(now_, self.bucket_configs))
      r48 == check_total(group_48, type_, now_, multiply_capacity(config, 16))
      group_56 == or_insert(r48.group.children, key[2],
                            RateLimitedGroup_new(now_, self.bucket_configs))
      r56 == check_total(group_56, type_, now_, multiply_capacity(config, 4))
      group_64 == or_insert(r56.group.children, key[3],
                            RateLimitedGroup_new(now_, self.bucket_configs))
      r64 == check_total(group_64, type_, now_, config)
      new_56 == [r56.group EXCEPT !.children = Put(r56.group.children, key[3], r64.group)]
      new_48 == [r48.group EXCEPT !.children = Put(r48.group.children, key[2], new_56)]
  IN  [ self |-> [self EXCEPT !.ipv6_buckets = Put(self.ipv6_buckets, key[1], new_48)],
        result |-> r64.ok ]

\* the IpAddr::V6 arm that stops at the first level without a token
check_ipv6_short_circuit(self, type_, ipv6, now_) ==
  LET config == self.bucket_configs[type_]
      key == split_ipv6(ipv6)
      group_48 == or_insert(self.ipv6_buckets, key[1],
                            RateLimitedGroup_new(now_, self.bucket_configs))
      r48 == check_total(group_48, type_, now_, multiply_capacity(config, 16))
      group_56 == or_insert(r48.group.children, key[2],
                            RateLimitedGroup_new(now_, self.bucket_configs))
      r56 == IF r48.ok THEN check_total(group_56, type_, now_, multiply_capacity(config, 4))
             ELSE [group |-> group_56, ok |-> FALSE]
      group_64 == or_insert(r56.group.children, key[3],
                            RateLimitedGroup_new(now_, self.bucket_configs))
      r64 == IF r56.ok THEN check_total(group_64, type_, now_, config)
             ELSE [group |-> group_64, ok |-> FALSE]
      new_56 == [r56.group EXCEPT !.children = Put(r56.group.children, key[3], r64.group)]
      new_48 == [r48.group EXCEPT !.children = Put(r48.group.children, key[2], new_56)]
  IN  [ self |-> [self EXCEPT !.ipv6_buckets = Put(self.ipv6_buckets, key[1], new_48)],
        result |-> ((TRUE /\ r48.ok) /\ r56.ok) /\ r64.ok ]

\* RateLimitStorage::check, the IpAddr::V6 arm
check_ipv6(self, type_, ipv6, now_) ==
  LET config == self.bucket_configs[type_]
      key == split_ipv6(ipv6)
      group_48 == or_insert(self.ipv6_buckets, key[1],
                            RateLimitedGroup_new(now_, self.bucket_configs))
      r48 == check_total(group_48, type_, now_, multiply_capacity(config, 16))
      group_56 == or_insert(r48.group.children, key[2],
                            RateLimitedGroup_new(now_, self.bucket_configs))
      r56 == check_total(group_56, type_, now_, multiply_capacity(config, 4))
      group_64 == or_insert(r56.group.children, key[3],
                            RateLimitedGroup_new(now_, self.bucket_configs))
      r64 == check_total(group_64, type_, now_, config)
      new_56 == [r56.group EXCEPT !.children = Put(r56.group.children, key[3], r64.group)]
      new_48 == [r48.group EXCEPT !.children = Put(r48.group.children, key[2], new_56)]
  IN  [ self |-> [self EXCEPT !.ipv6_buckets = Put(self.ipv6_buckets, key[1], new_48)],
        result |-> ((TRUE /\ r48.ok) /\ r56.ok) /\ r64.ok ]

\* check that drops the groups there are before it checks
check_after_pruning(self, type_, ip, now_) ==
  LET pruned == [self EXCEPT !.ipv4_buckets = Default, !.ipv6_buckets = Default]
  IN  IF ip.kind = "V4"
      THEN check_ipv4(pruned, type_, ip.addr, now_)
      ELSE check_ipv6(pruned, type_, ip.addr, now_)

\* RateLimitStorage::check: the storage afterwards and the returned bool
check(self, type_, ip, now_) ==
  IF ip.kind = "V4"
  THEN check_ipv4(self, type_, ip.addr, now_)
  ELSE check_ipv6(self, type_, ip.addr, now_)

\* has_refill_in_future comparing the stored token counts, not updated to now_
has_refill_in_future_stored(self, buckets, now_) ==
  \A type_ \in DOMAIN buckets :
    LET config == self.bucket_configs[type_]
    IN  buckets[type_].tokens # config.capacity

\* the closure has_refill_in_future of remove_full_buckets
has_refill_in_future(self, buckets, now_) ==
  \A type_ \in DOMAIN buckets :
    LET config == self.bucket_configs[type_]
    IN  update(buckets[type_], now_, config).tokens # config.capacity

\* the /56 group after its /64 children were pruned
prune_56(self, group_56, now_) ==
  [group_56 EXCEPT !.children =
     retain_and_shrink(group_56.children,
       {k \in DOMAIN group_56.children :
          has_refill_in_future(self, group_56.children[k].total, now_)})]

\* the /48 group after its /56 children were pruned
prune_48(self, group_48, now_) ==
  LET pruned == [k \in DOMAIN group_48.children |->
                   prune_56(self, group_48.children[k], now_)]
  IN  [group_48 EXCEPT !.children =
         retain_and_shrink(pruned,
           {k \in DOMAIN pruned :
              DOMAIN pruned[k].children # {}
                \/ has_refill_in_future(self, pruned[k].total, now_)})]

\* remove_full_buckets part of the way: the IPv4 groups and the /64 groups have
\* been gone through, the /56 and /48 groups are all still there
remove_full_buckets_children(self, now_) ==
  [self EXCEPT
     !.ipv4_buckets =
       retain_and_shrink(self.ipv4_buckets,
         {k \in DOMAIN self.ipv4_buckets :
            has_refill_in_future(self, self.ipv4_buckets[k].total, now_)}),
     !.ipv6_buckets =
       [k48 \in DOMAIN self.ipv6_buckets |->
          [self.ipv6_buckets[k48] EXCEPT !.children =
             [k56 \in DOMAIN self.ipv6_buckets[k48].children |->
                prune_56(self, self.ipv6_buckets[k48].children[k56], now_)]]]]

\* remove_full_buckets that writes the update of the fullness test back to the
\* buckets of the IPv4 and /48 groups it retains
remove_full_buckets_write_back(self, now_) ==
  LET updated(group) ==
        [group EXCEPT !.total =
           [t \in ActionType |-> update(group.total[t], now_, self.bucket_configs[t])]]
      pruned == [k \in DOMAIN self.ipv6_buckets |->
                   prune_48(self, self.ipv6_buckets[k], now_)]
      ipv4_kept ==
        retain_and_shrink(self.ipv4_buckets,
          {k \in DOMAIN self.ipv4_buckets :
             has_refill_in_future(self, self.ipv4_buckets[k].total, now_)})
      ipv6_kept ==
        retain_and_shrink(pruned,
          {k \in DOMAIN pruned :
             DOMAIN pruned[k].children # {}
               \/ has_refill_in_future(self, pruned[k].total, now_)})
  IN  [self EXCEPT
         !.ipv4_buckets = [k \in DOMAIN ipv4_kept |-> updated(ipv4_kept[k])],
         !.ipv6_buckets = [k \in DOMAIN ipv6_kept |-> updated(ipv6_kept[k])]]

\* RateLimitStorage::remove_full_buckets
remove_full_buckets(self, now_) ==
  LET pruned == [k \in DOMAIN self.ipv6_buckets |->
                   prune_48(self, self.ipv6_buckets[k], now_)]
  IN  [self EXCEPT
         !.ipv4_buckets =
           retain_and_shrink(self.ipv4_buckets,
             {k \in DOMAIN self.ipv4_buckets :
                has_refill_in_future(self, self.ipv4_buckets[k].total, now_)}),
         !.ipv6_buckets =
           retain_and_shrink(pruned,
             {k \in DOMAIN pruned :
                DOMAIN pruned[k].children # {}
                  \/ has_refill_in_future(self, pruned[k].total, now_)})]

\* set_config that turns down a configuration with an interval of 0
set_config_validated(self, new_configs) ==
  IF \E t \in ActionType : new_configs[t].secs_to_refill = 0 THEN self
  ELSE [self EXCEPT !.bucket_configs = new_configs]

\* set_config that starts over from an empty storage
set_config_fresh(self, new_configs) == RateLimitStorage_new(new_configs)

\* RateLimitStorage::set_config
set_config(self, new_configs) == [self EXCEPT !.bucket_configs = new_configs]

----------------------------------------------------------------------------
(* The source address of a request: get_ip and parse_ip *)

\* Option
None == [some |-> FALSE]

Some(x) == [some |-> TRUE, val |-> x]

\* the parts a source address text is made of: brackets, address literals, a
\* port suffix and other text
Parts == {"[", "]", "1.2.3.4", "2001:db8::", ":8000", "x"}

\* source address texts, as sequences of parts
Texts == UNION {[1..n -> Parts] : n \in 0..MaxParts}

\* what realip_remote_addr may return
ConnInfos == {None} \cup {Some(s) : s \in Texts}

\* the addresses the literals denote
Literal ==
  ("1.2.3.4" :> V4(1, 2, 3, 4))
  @@ ("2001:db8::" :> V6(<<32, 1, 13, 184, 0, 0, 0, 0, 0, 0, 0, 0, 0, 0, 0, 0>>))
  @@ ("001:db8::" :> V6(<<0, 1, 13, 184, 0, 0, 0, 0, 0, 0, 0, 0, 0, 0, 0, 0>>))

\* a part of more than one character without its first character
Rest == ("1.2.3.4" :> ".2.3.4") @@ ("2001:db8::" :> "001:db8::") @@ (":8000" :> "8000")

\* str::strip_suffix(']')
strip_suffix(s) ==
  IF Len(s) >= 1 /\ s[Len(s)] = "]" THEN Some(SubSeq(s, 1, Len(s) - 1)) ELSE None

\* str::get(1..): the text from its second character on
get_from_1(s) ==
  IF Len(s) = 0 THEN None
  ELSE IF s[1] \in DOMAIN Rest THEN Some(<<Rest[s[1]]>> \o Tail(s))
  ELSE Some(Tail(s))

\* IpAddr::from_str(..).ok()
IpAddr_from_str(s) ==
  IF Len(s) = 1 /\ s[1] \in DOMAIN Literal THEN Some(Literal[s[1]]) ELSE None

\* SocketAddr::from_str(..).ok(), then SocketAddr::ip
SocketAddr_from_str(s) ==
  IF Len(s) = 2 /\ s[1] \in DOMAIN Literal /\ Literal[s[1]].kind = "V4" /\ s[2] = ":8000"
  THEN Some(Literal[s[1]])
  ELSE IF /\ Len(s) = 4 /\ s[1] = "[" /\ s[3] = "]" /\ s[4] = ":8000"
          /\ s[2] \in DOMAIN Literal /\ Literal[s[2]].kind = "V6"
  THEN Some(Literal[s[2]])
  ELSE None

\* parse_ip without the SocketAddr branch
parse_ip_no_port(addr) ==
  IF strip_suffix(addr).some
  THEN LET s == get_from_1(strip_suffix(addr).val)
       IN  IF s.some THEN IpAddr_from_str(s.val) ELSE None
  ELSE IpAddr_from_str(addr)

\* parse_ip
parse_ip(addr) ==
  IF strip_suffix(addr).some
  THEN LET s == get_from_1(strip_suffix(addr).val)
       IN  IF s.some THEN IpAddr_from_str(s.val) ELSE None
  ELSE IF IpAddr_from_str(addr).some THEN IpAddr_from_str(addr)
  ELSE IF SocketAddr_from_str(addr).some THEN SocketAddr_from_str(addr)
  ELSE None

\* get_ip
get_ip(conn_info) ==
  LET parsed == IF conn_info.some THEN parse_ip(conn_info.val) ELSE None
  IN  IF parsed.some THEN parsed.val ELSE V4(127, 0, 0, 1)

----------------------------------------------------------------------------
(* Reading the storage: the groups on an address's path *)

\* the storage held in the variables
Storage ==
  [ipv4_buckets |-> ipv4_buckets, ipv6_buckets |-> ipv6_buckets,
   bucket_configs |-> bucket_configs]

\* the keys of the groups a check of ip goes through, coarsest first
PathsOf(ip) ==
  IF ip.kind = "V4" THEN << <<"v4", ip.addr>> >>
  ELSE LET key == split_ipv6(ip.addr)
       IN  << <<"v6", key[1]>>, <<"v6", key[1], key[2]>>, <<"v6", key[1], key[2], key[3]>> >>

\* the capacity multiplier check applies at each level of ip's path
FactorsOf(ip) == IF ip.kind = "V4" THEN <<1>> ELSE <<16, 4, 1>>

\* the capacity multiplier of the group under path p
FactorAt(p) == IF p[1] = "v4" THEN 1 ELSE IF Len(p) = 2 THEN 16 ELSE IF Len(p) = 3 THEN 4 ELSE 1

\* whether the storage holds a group under path p
HasGroup(self, p) ==
  IF p[1] = "v4" THEN p[2] \in DOMAIN self.ipv4_buckets
  ELSE /\ p[2] \in DOMAIN self.ipv6_buckets
       /\ Len(p) >= 3 => p[3] \in DOMAIN self.ipv6_buckets[p[2]].children
       /\ Len(p) >= 4 => p[4] \in DOMAIN self.ipv6_buckets[p[2]].children[p[3]].children

\* the group under path p
GroupAt(self, p) ==
  IF p[1] = "v4" THEN self.ipv4_buckets[p[2]]
  ELSE IF Len(p) = 2 THEN self.ipv6_buckets[p[2]]
  ELSE IF Len(p) = 3 THEN self.ipv6_buckets[p[2]].children[p[3]]
  ELSE self.ipv6_buckets[p[2]].children[p[3]].children[p[4]]

\* the paths of all groups the storage holds
Paths(self) ==
  {<<"v4", a>> : a \in DOMAIN self.ipv4_buckets}
  \cup {<<"v6", k48>> : k48 \in DOMAIN self.ipv6_buckets}
  \cup UNION {{<<"v6", k48, k56>> : k56 \in DOMAIN self.ipv6_buckets[k48].children} :
                k48 \in DOMAIN self.ipv6_buckets}
  \cup UNION {UNION {{<<"v6", k48, k56, k64>> :
                        k64 \in DOMAIN self.ipv6_buckets[k48].children[k56].children} :
                       k56 \in DOMAIN self.ipv6_buckets[k48].children} :
                k48 \in DOMAIN self.ipv6_buckets}

\* the group check_total is called on at path p: the stored one, or the one
\* or_insert puts there
EntryGroup(self, p, now_) ==
  IF HasGroup(self, p) THEN GroupAt(self, p)
  ELSE RateLimitedGroup_new(now_, self.bucket_configs)

----------------------------------------------------------------------------
(* History *)

NoIp == [kind |-> "none", addr |-> <<>>]

\* the record of an operation other than check
Did(op, tracked, stale) ==
  [op |-> op, type |-> "none", ip |-> NoIp, result |-> FALSE,
   pre |-> <<>>, created |-> <<>>, tracked |-> tracked, stale |-> stale]

\* every bucket of every tracked group was last checked at least its action
\* type's secs_to_refill before now_
AllStale(self, now_) ==
  \A p \in Paths(self) : \A t \in ActionType :
    GroupAt(self, p).total[t].last_checked + self.bucket_configs[t].secs_to_refill <= now_

\* meta after a check of (type_, ip): groups created are born now, every group
\* on the path counts one more check_total call, and where the bucket updated
\* to now has a token the action type passed now
MetaAfterCheck(m, self, type_, ip, now_) ==
  LET ps == PathsOf(ip)
      on == {ps[i] : i \in 1..Len(ps)}
      old(p) == IF HasGroup(self, p) THEN m[p]
                ELSE [born |-> now_, hits |-> [t \in ActionType |-> 0],
                      passed |-> [t \in ActionType |-> now_]]
      has_token(p) ==
        update(EntryGroup(self, p, now_).total[type_], now_,
               multiply_capacity(self.bucket_configs[type_], FactorAt(p))).tokens # 0
  IN  [p \in DOMAIN m \cup on |->
         IF p \in on
         THEN [old(p) EXCEPT !.hits[type_] = old(p).hits[type_] + 1,
                             !.passed[type_] = IF has_token(p) THEN now_ ELSE @]
         ELSE m[p]]

----------------------------------------------------------------------------
(* The state machine *)

\* Mutex::new: nobody holds the lock, it is not poisoned; log is the history of
\* the checks that took the lock, in the order they took it
Mutex_new == [holders |-> {}, poisoned |-> FALSE, log |-> <<>>]

\* the state after RateLimitCell::new(configs) returned at process start: the
\* storage is made and the sweep task is asleep
Started(configs) ==
  /\ now = 0
  /\ bucket_configs = configs
  /\ ipv4_buckets = Default
  /\ ipv6_buckets = Default
  /\ last = Did("new", 0, FALSE)
  /\ nchecks = 0
  /\ nreloads = 0
  /\ meta = Default
  /\ nogc = [self |-> RateLimitStorage_new(configs), result |-> FALSE]
  /\ cell = [state |-> "Ready", inits |-> 1, sweepers |-> 1]
  /\ tasks = <<>>
  /\ mutex = Mutex_new
  /\ sweeper = "sleep"

NoCall == [fn |-> "none"]

Init == (\E configs \in ConfigSet : Started(configs)) /\ call = NoCall

\* a request: RateLimitChecker::check calls state.check(type_, ip, InstantSecs::now());
\* what it does to the storage and its history
CheckedStorage(type_, ip) ==
  LET r == check(Storage, type_, ip, now)
      ps == PathsOf(ip)
  IN  /\ nchecks' = nchecks + 1
      /\ ipv4_buckets' = r.self.ipv4_buckets
      /\ ipv6_buckets' = r.self.ipv6_buckets
      /\ bucket_configs' = r.self.bucket_configs
      /\ last' = [op |-> "check", type |-> type_, ip |-> ip, result |-> r.result,
                  pre |-> [i \in 1..Len(ps) |-> EntryGroup(Storage, ps[i], now).total[type_]],
                  created |-> [i \in 1..Len(ps) |-> ~HasGroup(Storage, ps[i])],
                  tracked |-> 0, stale |-> FALSE]
      /\ meta' = MetaAfterCheck(meta, Storage, type_, ip, now)
      /\ UNCHANGED <<now, nreloads>>

\* a request, with no call of a function on its own under way
Checked(type_, ip) == CheckedStorage(type_, ip) /\ UNCHANGED call

\* the hourly sweep: remove_full_buckets(InstantSecs::now())
Swept ==
  LET s == remove_full_buckets(Storage, now)
  IN  /\ ipv4_buckets' = s.ipv4_buckets
      /\ ipv6_buckets' = s.ipv6_buckets
      /\ bucket_configs' = s.bucket_configs
      /\ last' = Did("remove_full_buckets", Cardinality(Paths(Storage)), AllStale(Storage, now))
      /\ meta' = [p \in Paths(s) \cap DOMAIN meta |-> meta[p]]
      /\ UNCHANGED <<now, nchecks, nreloads, call>>

\* RateLimitCell::set_config
Reloaded(new_configs) ==
  LET s == set_config(Storage, new_configs)
  IN  /\ nreloads < MaxReloads
      /\ nreloads' = nreloads + 1
      /\ ipv4_buckets' = s.ipv4_buckets
      /\ ipv6_buckets' = s.ipv6_buckets
      /\ bucket_configs' = s.bucket_configs
      /\ last' = Did("set_config", 0, FALSE)
      /\ UNCHANGED <<now, nchecks, meta, call>>

\* a second passes on the steady clock
Ticked ==
  /\ now < MaxTime
  /\ now' = now + 1
  /\ last' = Did("tick", 0, FALSE)
  /\ UNCHANGED <<ipv4_buckets, ipv6_buckets, bucket_configs, nchecks, nreloads, meta, call>>

(* The system: requests, the sweep, configuration reloads and the clock *)

Check(type_, ip) == nchecks < MaxChecks /\ Checked(type_, ip) /\ UNCHANGED <<nogc, server>>

RemoveFullBuckets == Swept /\ UNCHANGED <<nogc, server>>

SetConfig(new_configs) == Reloaded(new_configs) /\ UNCHANGED <<nogc, server>>

Tick == Ticked /\ UNCHANGED <<nogc, server>>

Next ==
  \/ \E type_ \in CheckedTypes, ip \in BusyIpSet : Check(type_, ip)
  \/ RemoveFullBuckets
  \/ \E new_configs \in ConfigSet : SetConfig(new_configs)
  \/ Tick

Spec == Init /\ [][Next]_vars

(* The system under a configuration that is never replaced *)

NextFixedConfig ==
  \/ \E type_ \in CheckedTypes, ip \in IpSet : Check(type_, ip)
  \/ RemoveFullBuckets
  \/ Tick

SpecFixedConfig == Init /\ [][NextFixedConfig]_vars

(* The same, run beside a storage that gets the same checks and no sweep *)

CheckBeside(type_, ip) ==
  /\ nchecks < MaxChecks
  /\ Checked(type_, ip)
  /\ LET shadow == check(nogc.self, type_, ip, now)
     IN  nogc' = [self |-> shadow.self, result |-> shadow.result]
  /\ UNCHANGED server

RemoveFullBucketsBeside ==
  Swept /\ nogc' = [nogc EXCEPT !.result = FALSE] /\ UNCHANGED server

TickBeside ==
  Ticked /\ nogc' = [nogc EXCEPT !.result = FALSE] /\ UNCHANGED server

NextBeside ==
  \/ \E type_ \in CheckedTypes, ip \in IpSet : CheckBeside(type_, ip)
  \/ RemoveFullBucketsBeside
  \/ TickBeside

SpecBeside == Init /\ [][NextBeside]_vars

(* The system under a fixed configuration, with clients whose requests go through
   the action types in turn, so that groups see every action type *)

\* the action types in the order of their declaration
TypeOrder == <<"Message", "Register", "Post", "Image", "Comment", "Search">>

CheckInTurn(ip) ==
  /\ nchecks < MaxBusyChecks
  /\ Checked(TypeOrder[(nchecks % Len(TypeOrder)) + 1], ip)
  /\ UNCHANGED <<nogc, server>>

NextInTurn ==
  \/ \E ip \in BusyIpSet : CheckInTurn(ip)
  \/ RemoveFullBuckets
  \/ Tick

SpecInTurn == Init /\ [][NextInTurn]_vars

(* A request: the middleware takes the source address from the connection and
   has the checker check it *)

InitGetIp ==
  /\ Started(CHOOSE configs \in ConfigSet : TRUE)
  /\ \E conn_info \in ConnInfos :
       call = [fn |-> "get_ip", done |-> FALSE, conn_info |-> conn_info, out |-> NoIp]

GetIp ==
  /\ call.fn = "get_ip" /\ ~call.done
  /\ call' = [call EXCEPT !.done = TRUE, !.out = get_ip(call.conn_info)]
  /\ UNCHANGED <<now, ipv4_buckets, ipv6_buckets, bucket_configs, last, nchecks, nreloads,
                 meta, nogc, server>>

CheckSource ==
  /\ call.fn = "get_ip" /\ call.done
  /\ nchecks < 1
  /\ Checked("Message", call.out)
  /\ UNCHANGED <<nogc, server>>

NextGetIp == GetIp \/ CheckSource

SpecGetIp == InitGetIp /\ [][NextGetIp]_vars

(* The concurrency wrapper: tasks call RateLimitCell::new, then serve requests
   through the middleware or replace the configuration, beside the sweep task,
   all within one second *)

Workers == 1..MaxWorkers

\* a configuration with secs_to_refill 0, which the conversion from
\* RateLimitConfig yields for an interval of 0 or below
ZeroIntervalConfig == [t \in ActionType |-> BucketConfig(1, 0)]

\* u32::try_from(x).unwrap_or(0)
try_from_unwrap_or_0(x) == IF x >= 0 THEN x ELSE 0

\* the enum_map! of From<RateLimitConfig>: the pair (limit, interval) each arm
\* takes from the fields of the settings
enum_map_pairs(rate_limit) ==
  [Message |-> <<rate_limit.message, rate_limit.message_per_second>>,
   Post |-> <<rate_limit.post, rate_limit.post_per_second>>,
   Register |-> <<rate_limit.register, rate_limit.register_per_second>>,
   Image |-> <<rate_limit.image, rate_limit.image_per_second>>,
   Comment |-> <<rate_limit.comment, rate_limit.comment_per_second>>,
   Search |-> <<rate_limit.search, rate_limit.search_per_second>>,
   ImportUserSettings |-> <<rate_limit.import_user_settings,
                            rate_limit.import_user_settings_per_second>>]

\* the conversion with every arm taking its interval from message_per_second
From_RateLimitConfig_one_interval(rate_limit) ==
  LET pairs == enum_map_pairs(rate_limit)
  IN  [t \in DOMAIN pairs |->
         BucketConfig(try_from_unwrap_or_0(pairs[t][1]),
                      try_from_unwrap_or_0(rate_limit.message_per_second))]

\* From<RateLimitConfig> for EnumMap<ActionType, BucketConfig>
From_RateLimitConfig(rate_limit) ==
  LET pairs == enum_map_pairs(rate_limit)
  IN  [t \in DOMAIN pairs |->
         BucketConfig(try_from_unwrap_or_0(pairs[t][1]),
                      try_from_unwrap_or_0(pairs[t][2]))]

\* struct RateLimitConfig with every limit and every interval the same
RateLimitConfig_uniform(limit, interval) ==
  [message |-> limit, message_per_second |-> interval,
   post |-> limit, post_per_second |-> interval,
   register |-> limit, register_per_second |-> interval,
   image |-> limit, image_per_second |-> interval,
   comment |-> limit, comment_per_second |-> interval,
   search |-> limit, search_per_second |-> interval,
   import_user_settings |-> limit, import_user_settings_per_second |-> interval]

\* the settings the server is run with: one token in 2 seconds, two tokens a
\* second, and an interval of 0 and of -1 seconds
RateLimitConfigSet ==
  { RateLimitConfig_uniform(pair[1], pair[2]) :
      pair \in {<<1, 2>>, <<2, 1>>, <<1, 0>>, <<1, -1>>} }

\* the configurations passed to RateLimitCell::new and set_config, for the
\* action types the storage keeps buckets of
ServerConfigSet ==
  {[t \in ActionType |-> From_RateLimitConfig(rate_limit)[t]] :
     rate_limit \in RateLimitConfigSet}

\* the requests served: Message requests from an IPv4 and an IPv6 address
ServerTypes == {"Message"}

ServerIpSet ==
  {V4(123, 123, 123, 123), V6(<<0, 1, 0, 2, 0, 3, 0, 0, 0, 0, 0, 0, 0, 0, 0, 0>>)}

\* OnceCell::get_or_init that runs the init of every caller that finds no value
get_or_init_no_permit(state) == IF state = "Ready" THEN "get" ELSE "init"

\* OnceCell::get_or_init that runs the init of every caller that finds no other
\* init under way
get_or_init_again(state) == IF state = "Initializing" THEN "wait" ELSE "init"

\* OnceCell::get_or_init: what a caller does when it finds the cell in this state:
\* take the value, take the permit and run the init, or wait for the permit
get_or_init(state) ==
  IF state = "Ready" THEN "get"
  ELSE IF state = "Uninitialized" THEN "init"
  ELSE "wait"

\* Mutex::lock that does not wait for the holder
Mutex_lock_unguarded(self) == TRUE

\* Mutex::lock returns once nobody holds the lock
Mutex_lock(self) == self.holders = {}

\* lock().expect(..) that takes the guard out of a poisoned lock and goes on
lock_expect_into_inner(self) == "guard"

\* lock().expect(..): the guard, or a panic when the lock is poisoned
lock_expect(self) == IF self.poisoned THEN "panic" ELSE "guard"

\* the division in Bucket::update faults
update_panics(config) == config.secs_to_refill = 0

\* RateLimitStorage::check panics: the first check_total divides by zero
check_panics(self, type_, ip, now_) == update_panics(self.bucket_configs[type_])

\* the storage a check leaves behind when its first check_total panics: the
\* first entry of the address's path is there
check_unwound(self, type_, ip, now_) ==
  IF ip.kind = "V4"
  THEN [self EXCEPT !.ipv4_buckets =
          Put(self.ipv4_buckets, ip.addr,
              or_insert(self.ipv4_buckets, ip.addr,
                        RateLimitedGroup_new(now_, self.bucket_configs)))]
  ELSE [self EXCEPT !.ipv6_buckets =
          Put(self.ipv6_buckets, split_ipv6(ip.addr)[1],
              or_insert(self.ipv6_buckets, split_ipv6(ip.addr)[1],
                        RateLimitedGroup_new(now_, self.bucket_configs)))]

\* has_refill_in_future panics: all(..) goes through the action types in their
\* order and stops at the first full bucket; it panics when it comes to an
\* action type whose update divides by zero
has_refill_in_future_panics(self, buckets, now_) ==
  \E k \in 1..Len(TypeOrder) :
    /\ update_panics(self.bucket_configs[TypeOrder[k]])
    /\ \A j \in 1..(k - 1) :
         /\ ~update_panics(self.bucket_configs[TypeOrder[j]])
         /\ update(buckets[TypeOrder[j]], now_, self.bucket_configs[TypeOrder[j]]).tokens
              # self.bucket_configs[TypeOrder[j]].capacity

\* remove_full_buckets panics: one of the groups it tests does (a group with
\* children is tested when none of its children is retained)
remove_full_buckets_panics(self, now_) ==
  \E p \in Paths(self) :
    /\ has_refill_in_future_panics(self, GroupAt(self, p).total, now_)
    /\ \/ p[1] = "v4"
       \/ Len(p) = 4
       \/ \A q \in Paths(self) :
            (Len(q) = 4 /\ SubSeq(q, 1, Len(p)) = p) =>
              /\ ~has_refill_in_future_panics(self, GroupAt(self, q).total, now_)
              /\ ~has_refill_in_future(self, GroupAt(self, q).total, now_)

\* the middleware that calls the wrapped service whatever the checker returned
dispatch_always(result) == [served |-> 1, response |-> "service"]

\* RateLimitedMiddleware::call after the check: service.call(req), or the
\* response made from RateLimitError
dispatch(result) ==
  IF result THEN [served |-> 1, response |-> "service"]
  ELSE [served |-> 0, response |-> "RateLimitError"]

\* a task before it calls RateLimitCell::new(config)
NewTask(config) ==
  [pc |-> "new", config |-> config, waited |-> FALSE, late |-> FALSE, calls |-> 0,
   type |-> "none", ip |-> NoIp, ticket |-> 0, guard |-> <<>>, at |-> 0,
   checks |-> 0, result |-> FALSE, served |-> 0, response |-> "none"]

\* process start: LOCAL_INSTANCE is empty and there is no storage yet
InitServer ==
  /\ now = 0
  /\ ipv4_buckets = Default /\ ipv6_buckets = Default /\ bucket_configs = Default
  /\ last = Did("start", 0, FALSE)
  /\ nchecks = 0 /\ nreloads = 0
  /\ meta = Default
  /\ nogc = [self |-> RateLimitStorage_new(Default), result |-> FALSE]
  /\ call = NoCall
  /\ cell = [state |-> "Uninitialized", inits |-> 0, sweepers |-> 0]
  /\ \E configs \in [Workers -> ServerConfigSet] :
       tasks = [w \in Workers |-> NewTask(configs[w])]
  /\ mutex = Mutex_new
  /\ sweeper = "none"

\* RateLimitCell::new: LOCAL_INSTANCE.get_or_init(..) returns the cell that is
\* there, or takes the permit to run the init, or waits for the permit
New(w) ==
  /\ tasks[w].pc = "new"
  /\ IF get_or_init(cell.state) = "get"
     THEN /\ tasks' = [tasks EXCEPT ![w].pc = "ready",
                                    ![w].late = Paths(Storage) # {}]
          /\ cell' = cell
     ELSE IF get_or_init(cell.state) = "init"
     THEN /\ tasks' = [tasks EXCEPT ![w].pc = "init"]
          /\ cell' = [cell EXCEPT !.state = "Initializing"]
     ELSE /\ tasks' = [tasks EXCEPT ![w].pc = "wait", ![w].waited = TRUE]
          /\ cell' = cell
  /\ UNCHANGED <<now, ipv4_buckets, ipv6_buckets, bucket_configs, last, nchecks, nreloads,
                 meta, nogc, call, mutex, sweeper>>

\* RateLimitCell::new: a caller that waited for the permit finds the cell set
Await(w) ==
  /\ tasks[w].pc = "wait"
  /\ cell.state = "Ready"
  /\ tasks' = [tasks EXCEPT ![w].pc = "ready"]
  /\ UNCHANGED <<now, ipv4_buckets, ipv6_buckets, bucket_configs, last, nchecks, nreloads,
                 meta, nogc, call, cell, mutex, sweeper>>

\* the init of RateLimitCell::new: the storage is made from the caller's
\* configuration, the sweep task is spawned, the cell is set
InitCell(w) ==
  /\ tasks[w].pc = "init"
  /\ LET s == RateLimitStorage_new(tasks[w].config)
     IN  /\ ipv4_buckets' = s.ipv4_buckets
         /\ ipv6_buckets' = s.ipv6_buckets
         /\ bucket_configs' = s.bucket_configs
  /\ mutex' = [Mutex_new EXCEPT !.log = mutex.log]
  /\ sweeper' = "sleep"
  /\ cell' = [state |-> "Ready", inits |-> cell.inits + 1, sweepers |-> cell.sweepers + 1]
  /\ tasks' = [tasks EXCEPT ![w].pc = "ready"]
  /\ last' = Did("new", 0, FALSE)
  /\ meta' = Default
  /\ UNCHANGED <<now, nchecks, nreloads, nogc, call>>

\* RateLimitedMiddleware::call: a request of type_ from ip arrives at a task
Call(w, type_, ip) ==
  /\ tasks[w].pc = "ready"
  /\ tasks[w].calls < MaxCalls
  /\ tasks' = [tasks EXCEPT ![w] =
       [@ EXCEPT !.pc = "lock", !.calls = @ + 1, !.type = type_, !.ip = ip,
                 !.checks = 0, !.result = FALSE, !.served = 0, !.response = "none"]]
  /\ UNCHANGED <<now, ipv4_buckets, ipv6_buckets, bucket_configs, last, nchecks, nreloads,
                 meta, nogc, call, cell, mutex, sweeper>>

\* RateLimitChecker::check: self.state.lock().expect(..)
Lock(w) ==
  /\ tasks[w].pc = "lock"
  /\ Mutex_lock(mutex)
  /\ IF lock_expect(mutex) = "panic"
     THEN /\ tasks' = [tasks EXCEPT ![w] =
                 [@ EXCEPT !.pc = "ready", !.checks = @ + 1, !.response = "panic"]]
          /\ mutex' = mutex
     ELSE /\ tasks' = [tasks EXCEPT ![w] =
                 [@ EXCEPT !.pc = "check", !.checks = @ + 1, !.ticket = Len(mutex.log) + 1]]
          /\ mutex' = [mutex EXCEPT
                 !.holders = @ \cup {w},
                 !.log = Append(@, [task |-> w, type |-> tasks[w].type, ip |-> tasks[w].ip,
                                    at |-> now, born |-> now, k |-> 0, capacity |-> 0,
                                    waiting |-> {v \in Workers \ {w} : tasks[v].pc = "lock"},
                                    result |-> "pending"])]
  /\ UNCHANGED <<now, ipv4_buckets, ipv6_buckets, bucket_configs, last, nchecks, nreloads,
                 meta, nogc, call, cell, sweeper>>

\* RateLimitChecker::check: state.check(self.action_type, ip_addr, InstantSecs::now())
\* reads the storage and computes; a panic unwinds and drops the guard, which
\* poisons the lock
CheckLocked(w) ==
  /\ tasks[w].pc = "check"
  /\ IF check_panics(Storage, tasks[w].type, tasks[w].ip, now)
     THEN LET s == check_unwound(Storage, tasks[w].type, tasks[w].ip, now)
          IN  /\ ipv4_buckets' = s.ipv4_buckets
              /\ ipv6_buckets' = s.ipv6_buckets
              /\ tasks' = [tasks EXCEPT ![w] = [@ EXCEPT !.pc = "ready", !.response = "panic"]]
              /\ mutex' = [mutex EXCEPT !.holders = @ \ {w}, !.poisoned = TRUE,
                                        !.log[tasks[w].ticket].result = "panic"]
     ELSE /\ tasks' = [tasks EXCEPT ![w] =
                 [@ EXCEPT !.pc = "unlock", !.at = now,
                           !.guard = check(Storage, tasks[w].type, tasks[w].ip, now)]]
          /\ UNCHANGED <<ipv4_buckets, ipv6_buckets, mutex>>
  /\ UNCHANGED <<now, bucket_configs, last, nchecks, nreloads, meta, nogc, call, cell, sweeper>>

\* RateLimitChecker::check: the storage is as check leaves it, the bool is
\* returned and the guard is dropped
Unlock(w) ==
  LET t == tasks[w]
      ps == PathsOf(t.ip)
      after == MetaAfterCheck(meta, Storage, t.type, t.ip, t.at)
  IN  /\ t.pc = "unlock"
      /\ ipv4_buckets' = t.guard.self.ipv4_buckets
      /\ ipv6_buckets' = t.guard.self.ipv6_buckets
      /\ bucket_configs' = t.guard.self.bucket_configs
      /\ tasks' = [tasks EXCEPT ![w] =
           [@ EXCEPT !.pc = "dispatch", !.result = t.guard.result, !.guard = <<>>]]
      /\ mutex' = [mutex EXCEPT
           !.holders = @ \ {w},
           !.log = [@ EXCEPT ![t.ticket] =
                      [@ EXCEPT !.result = IF t.guard.result THEN "true" ELSE "false",
                                !.at = t.at,
                                !.born = after[ps[Len(ps)]].born,
                                !.k = after[ps[Len(ps)]].hits[t.type],
                                !.capacity = bucket_configs[t.type].capacity]]]
      /\ nchecks' = nchecks + 1
      /\ last' = [op |-> "check", type |-> t.type, ip |-> t.ip, result |-> t.guard.result,
                  pre |-> [i \in 1..Len(ps) |-> EntryGroup(Storage, ps[i], t.at).total[t.type]],
                  created |-> [i \in 1..Len(ps) |-> ~HasGroup(Storage, ps[i])],
                  tracked |-> 0, stale |-> FALSE]
      /\ meta' = after
      /\ UNCHANGED <<now, nreloads, nogc, call, cell, sweeper>>

\* RateLimitedMiddleware::call: the wrapped service is called, or the request is
\* answered with the rate limit error
Dispatch(w) ==
  /\ tasks[w].pc = "dispatch"
  /\ tasks' = [tasks EXCEPT ![w] =
       [@ EXCEPT !.pc = "ready",
                 !.served = @ + dispatch(tasks[w].result).served,
                 !.response = dispatch(tasks[w].result).response]]
  /\ UNCHANGED <<now, ipv4_buckets, ipv6_buckets, bucket_configs, last, nchecks, nreloads,
                 meta, nogc, call, cell, mutex, sweeper>>

\* RateLimitCell::set_config is called by a task
CallSetConfig(w, new_configs) ==
  /\ tasks[w].pc = "ready"
  /\ nreloads < MaxReloads
  /\ nreloads' = nreloads + 1
  /\ tasks' = [tasks EXCEPT ![w] = [@ EXCEPT !.pc = "lock_config", !.guard = new_configs]]
  /\ UNCHANGED <<now, ipv4_buckets, ipv6_buckets, bucket_configs, last, nchecks,
                 meta, nogc, call, cell, mutex, sweeper>>

\* RateLimitCell::set_config: self.state.lock().expect(..)
LockConfig(w) ==
  /\ tasks[w].pc = "lock_config"
  /\ Mutex_lock(mutex)
  /\ IF lock_expect(mutex) = "panic"
     THEN /\ tasks' = [tasks EXCEPT ![w] = [@ EXCEPT !.pc = "ready", !.guard = <<>>]]
          /\ mutex' = mutex
     ELSE /\ tasks' = [tasks EXCEPT ![w].pc = "set_config"]
          /\ mutex' = [mutex EXCEPT !.holders = @ \cup {w}]
  /\ UNCHANGED <<now, ipv4_buckets, ipv6_buckets, bucket_configs, last, nchecks, nreloads,
                 meta, nogc, call, cell, sweeper>>

\* RateLimitCell::set_config: .set_config(config.into()), and the guard is dropped
ApplySetConfig(w) ==
  LET s == set_config(Storage, tasks[w].guard)
  IN  /\ tasks[w].pc = "set_config"
      /\ ipv4_buckets' = s.ipv4_buckets
      /\ ipv6_buckets' = s.ipv6_buckets
      /\ bucket_configs' = s.bucket_configs
      /\ tasks' = [tasks EXCEPT ![w] = [@ EXCEPT !.pc = "ready", !.guard = <<>>]]
      /\ mutex' = [mutex EXCEPT !.holders = @ \ {w}]
      /\ last' = Did("set_config", 0, FALSE)
      /\ UNCHANGED <<now, nchecks, nreloads, meta, nogc, call, cell, sweeper>>

\* the sweep task: tokio::time::sleep(hour) is over
Wake ==
  /\ sweeper = "sleep"
  /\ sweeper' = "lock"
  /\ UNCHANGED <<now, ipv4_buckets, ipv6_buckets, bucket_configs, last, nchecks, nreloads,
                 meta, nogc, call, cell, tasks, mutex>>

\* the sweep task: rate_limit3.lock().expect(..); the task ends when that panics
SweepLock ==
  /\ sweeper = "lock"
  /\ Mutex_lock(mutex)
  /\ IF lock_expect(mutex) = "panic"
     THEN sweeper' = "panicked" /\ mutex' = mutex
     ELSE sweeper' = "sweep" /\ mutex' = [mutex EXCEPT !.holders = @ \cup {0}]
  /\ UNCHANGED <<now, ipv4_buckets, ipv6_buckets, bucket_configs, last, nchecks, nreloads,
                 meta, nogc, call, cell, tasks>>

\* the sweep task: .remove_full_buckets(InstantSecs::now()) goes through the IPv4
\* groups and the /64 groups; a panic ends the task and poisons the lock
SweepChildren ==
  /\ sweeper = "sweep"
  /\ IF remove_full_buckets_panics(Storage, now)
     THEN /\ sweeper' = "panicked"
          /\ mutex' = [mutex EXCEPT !.holders = @ \ {0}, !.poisoned = TRUE]
          /\ UNCHANGED <<ipv4_buckets, ipv6_buckets, bucket_configs>>
     ELSE LET s == remove_full_buckets_children(Storage, now)
          IN  /\ ipv4_buckets' = s.ipv4_buckets
              /\ ipv6_buckets' = s.ipv6_buckets
              /\ bucket_configs' = s.bucket_configs
              /\ last' = Did("remove_full_buckets", Cardinality(Paths(Storage)),
                              AllStale(Storage, now))
              /\ meta' = [p \in Paths(s) \cap DOMAIN meta |-> meta[p]]
              /\ sweeper' = "sweep_parents"
              /\ mutex' = mutex
  /\ IF remove_full_buckets_panics(Storage, now) THEN UNCHANGED <<last, meta>> ELSE TRUE
  /\ UNCHANGED <<now, nchecks, nreloads, nogc, call, cell, tasks>>

\* the sweep task: remove_full_buckets settles the /56 and /48 groups and
\* returns, and the guard is dropped
Sweep ==
  /\ sweeper = "sweep_parents"
  /\ LET s == remove_full_buckets(Storage, now)
     IN  /\ ipv4_buckets' = s.ipv4_buckets
         /\ ipv6_buckets' = s.ipv6_buckets
         /\ bucket_configs' = s.bucket_configs
         /\ meta' = [p \in Paths(s) \cap DOMAIN meta |-> meta[p]]
  /\ sweeper' = "sleep"
  /\ mutex' = [mutex EXCEPT !.holders = @ \ {0}]
  /\ UNCHANGED <<now, last, nchecks, nreloads, nogc, call, cell, tasks>>

NextServer ==
  \/ \E w \in Workers : New(w)
  \/ \E w \in Workers : Await(w)
  \/ \E w \in Workers : InitCell(w)
  \/ \E w \in Workers, type_ \in ServerTypes, ip \in ServerIpSet : Call(w, type_, ip)
  \/ \E w \in Workers : Lock(w)
  \/ \E w \in Workers : CheckLocked(w)
  \/ \E w \in Workers : Unlock(w)
  \/ \E w \in Workers : Dispatch(w)
  \/ \E w \in Workers, new_configs \in ServerConfigSet : CallSetConfig(w, new_configs)
  \/ \E w \in Workers : LockConfig(w)
  \/ \E w \in Workers : ApplySetConfig(w)
  \/ Wake
  \/ SweepLock
  \/ SweepChildren
  \/ Sweep

SpecServer == InitServer /\ [][NextServer]_vars

(* The same once RateLimitCell::new has returned to every task, with requests
   from one address *)

InitReady ==
  /\ now = 0
  /\ \E configs \in ServerConfigSet :
       /\ bucket_configs = configs
       /\ nogc = [self |-> RateLimitStorage_new(configs), result |-> FALSE]
       /\ tasks = [w \in Workers |-> [NewTask(configs) EXCEPT !.pc = "ready"]]
  /\ ipv4_buckets = Default /\ ipv6_buckets = Default
  /\ last = Did("new", 0, FALSE)
  /\ nchecks = 0 /\ nreloads = 0
  /\ meta = Default
  /\ call = NoCall
  /\ cell = [state |-> "Ready", inits |-> 1, sweepers |-> 1]
  /\ mutex = Mutex_new
  /\ sweeper = "sleep"

NextReady ==
  \/ \E w \in Workers : Call(w, "Message", V4(123, 123, 123, 123))
  \/ \E w \in Workers : Lock(w)
  \/ \E w \in Workers : CheckLocked(w)
  \/ \E w \in Workers : Unlock(w)
  \/ \E w \in Workers : Dispatch(w)
  \/ \E w \in Workers, new_configs \in ServerConfigSet : CallSetConfig(w, new_configs)
  \/ \E w \in Workers : LockConfig(w)
  \/ \E w \in Workers : ApplySetConfig(w)
  \/ Wake
  \/ SweepLock
  \/ SweepChildren
  \/ Sweep

\* every task and the sweep task keep running; a task that asks for the lock
\* gets it in the end (the sweep task sleeps an hour between two sweeps)
FairServer ==
  /\ \A w \in Workers :
       /\ SF_vars(Lock(w)) /\ WF_vars(CheckLocked(w)) /\ WF_vars(Unlock(w))
       /\ WF_vars(Dispatch(w))
       /\ SF_vars(LockConfig(w)) /\ WF_vars(ApplySetConfig(w))
  /\ WF_vars(Wake) /\ SF_vars(SweepLock) /\ WF_vars(SweepChildren) /\ WF_vars(Sweep)

FairSpecReady == InitReady /\ [][NextReady]_vars /\ FairServer

(* Bucket::update applied on its own to a bucket, a time and a configuration *)

InitUpdate ==
  /\ Started(CHOOSE configs \in ConfigSet : TRUE)
  /\ \E tokens \in 0..MaxTokens, last_checked \in 0..MaxTime, now_ \in 0..MaxTime,
        capacity \in 0..MaxTokens, secs_to_refill \in 1..MaxTime :
       call = [fn |-> "update", done |-> FALSE,
               self |-> [last_checked |-> last_checked, tokens |-> tokens],
               now |-> now_, config |-> BucketConfig(capacity, secs_to_refill),
               out |-> [last_checked |-> last_checked, tokens |-> tokens]]

ApplyUpdate ==
  /\ call.fn = "update" /\ ~call.done
  /\ call' = [call EXCEPT !.done = TRUE, !.out = update(call.self, call.now, call.config)]
  /\ UNCHANGED <<now, ipv4_buckets, ipv6_buckets, bucket_configs, last, nchecks, nreloads,
                 meta, nogc, server>>

SpecUpdate == InitUpdate /\ [][ApplyUpdate]_vars

(* Bucket::update applied up to the limits of its integer types, to a bucket as
   checks leave it (0 <= tokens <= capacity, last checked in the past), in a
   build with overflow checks and debug assertions and in one without *)

Builds == {"debug", "release"}

InitUpdateAt ==
  /\ Started(CHOOSE configs \in ConfigSet : TRUE)
  /\ \E capacity \in 1..IntMax(Bits), secs_to_refill \in {1, 2, IntMax(Bits)},
        now_ \in 0..UIntMax(Bits), build \in Builds :
       \E tokens \in 0..capacity, last_checked \in 0..now_ :
         call = [fn |-> "update_at", done |-> FALSE, build |-> build,
                 self |-> [last_checked |-> last_checked, tokens |-> tokens],
                 now |-> now_, config |-> BucketConfig(capacity, secs_to_refill),
                 panicked |-> FALSE,
                 out |-> [last_checked |-> last_checked, tokens |-> tokens]]

ApplyUpdateAt ==
  /\ call.fn = "update_at" /\ ~call.done
  /\ LET overflow == /\ call.build = "debug"
                     /\ update_add_overflows(Bits, call.self, call.now, call.config)
     IN  call' = [call EXCEPT
                    !.done = TRUE,
                    !.panicked = overflow,
                    !.out = IF overflow THEN call.self
                            ELSE update_at(Bits, call.self, call.now, call.config)]
  /\ UNCHANGED <<now, ipv4_buckets, ipv6_buckets, bucket_configs, last, nchecks, nreloads,
                 meta, nogc, server>>

SpecUpdateAt == InitUpdateAt /\ [][ApplyUpdateAt]_vars

(* split_ipv6 applied to two IPv6 addresses, and a check from each of them at
   the same second under the configuration of test_rate_limiter *)

\* the address of test_split_ipv6
TestSplitIp ==
  V6(<<0, 17, 34, 51, 68, 85, 102, 119, 136, 153, 170, 187, 204, 221, 238, 255>>)

\* addresses that differ in the last byte of the /48, in the /56 byte, in the
\* /64 byte, in the byte after it and in the last byte, and the test's address
SplitIpSet ==
  {V6(<<0, 1, 0, 2, 0, a6, b, c, d, 0, 0, 0, 0, 0, 0, z>>) :
     a6 \in {3, 4}, b \in {0, 4}, c \in {0, 5}, d \in {0, 6}, z \in {0, 1}}
  \cup {TestSplitIp}

InitSplit ==
  /\ Started([t \in ActionType |-> BucketConfig(2, 1)])
  /\ \E ip1 \in SplitIpSet, ip2 \in SplitIpSet :
       call = [fn |-> "split_ipv6", done |-> FALSE, ips |-> <<ip1, ip2>>,
               out |-> <<>>]

ApplySplit ==
  /\ call.fn = "split_ipv6" /\ ~call.done
  /\ call' = [call EXCEPT !.done = TRUE,
                          !.out = <<split_ipv6(call.ips[1].addr), split_ipv6(call.ips[2].addr)>>]
  /\ UNCHANGED <<now, ipv4_buckets, ipv6_buckets, bucket_configs, last, nchecks, nreloads,
                 meta, nogc, server>>

CheckSplit ==
  /\ call.fn = "split_ipv6" /\ call.done
  /\ nchecks < 2
  /\ Checked("Message", call.ips[nchecks + 1])
  /\ UNCHANGED <<nogc, server>>

NextSplit == ApplySplit \/ CheckSplit

SpecSplit == InitSplit /\ [][NextSplit]_vars

(* Message requests from two IPv4 addresses under one configuration that is
   never replaced, with no sweep, and the times at which requests passed *)

\* one configuration for every action type: capacity 0..MaxTokens, refilled in
\* 1..MaxTime + 1 seconds
RateConfigSet ==
  {[t \in ActionType |-> BucketConfig(capacity, secs_to_refill)] :
     capacity \in 0..MaxTokens, secs_to_refill \in 1..(MaxTime + 1)}

InitRate ==
  /\ \E configs \in RateConfigSet : Started(configs)
  /\ call = [fn |-> "check", passes |-> <<>>]

CheckRate(ip) ==
  /\ call.fn = "check"
  /\ nchecks < MaxBusyChecks
  /\ CheckedStorage("Message", ip)
  /\ call' = [call EXCEPT !.passes =
                 IF check(Storage, "Message", ip, now).result
                 THEN Append(@, [ip |-> ip, at |-> now]) ELSE @]
  /\ UNCHANGED <<nogc, server>>

NextRate ==
  \/ \E ip \in Ipv4Set : CheckRate(ip)
  \/ Tick

SpecRate == InitRate /\ [][NextRate]_vars

(* The system under configurations that give an action type no capacity *)

\* the configuration of test_rate_limiter, the same with no capacity for
\* Message, and a configuration with no capacity for any action type
ZeroConfigSet ==
  { [t \in ActionType |-> BucketConfig(2, 1)],
    [t \in ActionType |-> IF t = "Message" THEN BucketConfig(0, 1) ELSE BucketConfig(2, 1)],
    [t \in ActionType |-> BucketConfig(0, 2)] }

InitZero == (\E configs \in ZeroConfigSet : Started(configs)) /\ call = NoCall

NextZero ==
  \/ \E type_ \in CheckedTypes, ip \in BusyIpSet : Check(type_, ip)
  \/ RemoveFullBuckets
  \/ \E new_configs \in ZeroConfigSet : SetConfig(new_configs)
  \/ Tick

SpecZero == InitZero /\ [][NextZero]_vars

(* The conversion of the settings applied on its own *)

\* RateLimitConfig::builder().build(): the defaults of the settings
RateLimitConfig_default ==
  [message |-> 180, message_per_second |-> 60,
   post |-> 6, post_per_second |-> 300,
   register |-> 3, register_per_second |-> 3600,
   image |-> 6, image_per_second |-> 3600,
   comment |-> 6, comment_per_second |-> 600,
   search |-> 60, search_per_second |-> 600,
   import_user_settings |-> 1, import_user_settings_per_second |-> 24 * 60 * 60]

\* values set in place of a default: a negative one, 0, and one that no default has
SetValues == {-1, 0, 7}

\* the defaults with up to two fields set to other values
SettingsSet ==
  {[f \in DOMAIN RateLimitConfig_default |->
      IF f = f1 THEN v1 ELSE IF f = f2 THEN v2 ELSE RateLimitConfig_default[f]] :
     f1 \in DOMAIN RateLimitConfig_default, f2 \in DOMAIN RateLimitConfig_default,
     v1 \in SetValues, v2 \in SetValues}
  \cup {RateLimitConfig_default}

InitFrom ==
  /\ Started(CHOOSE configs \in ConfigSet : TRUE)
  /\ \E rate_limit \in SettingsSet :
       call = [fn |-> "from", done |-> FALSE, rate_limit |-> rate_limit, out |-> <<>>]

ApplyFrom ==
  /\ call.fn = "from" /\ ~call.done
  /\ call' = [call EXCEPT !.done = TRUE, !.out = From_RateLimitConfig(call.rate_limit)]
  /\ UNCHANGED <<now, ipv4_buckets, ipv6_buckets, bucket_configs, last, nchecks, nreloads,
                 meta, nogc, server>>

SpecFrom == InitFrom /\ [][ApplyFrom]_vars

----------------------------------------------------------------------------
(* Reading the last operation *)

LastIsCheck == last.op = "check"

\* the levels the last check went through: 1 for IPv4; /48, /56, /64 for IPv6
LastLevels == 1..Len(PathsOf(last.ip))

\* the configuration of the last check at level i: the capacity a level of the
\* hierarchy is meant to have, times 16, 4 and 1
LevelConfig(i) ==
  [capacity |-> FactorsOf(last.ip)[i] * bucket_configs[last.type].capacity,
   secs_to_refill |-> bucket_configs[last.type].secs_to_refill]

\* the bucket of the last check's action type now stored at level i
StoredBucket(i) == GroupAt(Storage, PathsOf(last.ip)[i]).total[last.type]

\* the refill-only update of the bucket check_total was called on at level i
Updated(i) == update(last.pre[i], now, LevelConfig(i))

----------------------------------------------------------------------------
(* C1 *)

\* C1: for an IPv4 address whose group was created at this instant, under a
\* configuration (C >= 1, S >= 1) of the action type: after k calls at that
\* instant the bucket holds max(0, C - k) tokens, the k-th call returned true
\* iff k <= C (the first C pass, the next is rejected with 0 tokens left), and
\* a call at least S seconds after the bucket was last checked returns true
\* and leaves C - 1 tokens.
C1_BurstThenRefill ==
  /\ \A a \in DOMAIN ipv4_buckets : \A t \in CheckedTypes :
       meta[<<"v4", a>>].born = now =>
         ipv4_buckets[a].total[t].tokens
           = Max(0, bucket_configs[t].capacity - meta[<<"v4", a>>].hits[t])
  /\ (LastIsCheck /\ last.ip.kind = "V4" /\ meta[PathsOf(last.ip)[1]].born = now) =>
       /\ last.result
            = (meta[PathsOf(last.ip)[1]].hits[last.type] <= bucket_configs[last.type].capacity)
       /\ ~last.result => StoredBucket(1).tokens = 0
  /\ (LastIsCheck /\ last.ip.kind = "V4"
        /\ last.pre[1].last_checked + bucket_configs[last.type].secs_to_refill <= now) =>
       /\ last.result
       /\ StoredBucket(1) = [last_checked |-> now,
                             tokens |-> bucket_configs[last.type].capacity - 1]

\* the scenario ran to its end: an address used up its tokens, was rejected, and
\* passes again one refill interval later
C1_Witness ==
  /\ LastIsCheck /\ last.ip.kind = "V4" /\ last.result
  /\ last.pre[1].tokens = 0
  /\ last.pre[1].last_checked + bucket_configs[last.type].secs_to_refill = now
  /\ meta[PathsOf(last.ip)[1]].hits[last.type] = bucket_configs[last.type].capacity + 2

----------------------------------------------------------------------------
(* C2 *)

\* C2: at every level where the last check's check_total was rejected (the bucket
\* updated to now has 0 tokens) the stored bucket is the one check_total was
\* called on, last_checked and tokens alike; the check returned false, and the
\* same check made again at once is rejected and leaves the storage as it is at
\* that level.
C2_RejectedLeavesBucket ==
  LastIsCheck =>
    \A i \in LastLevels :
      Updated(i).tokens = 0 =>
        /\ StoredBucket(i) = last.pre[i]
        /\ ~last.result
        /\ LET g == GroupAt(Storage, PathsOf(last.ip)[i])
               again == check_total(g, last.type, now, LevelConfig(i))
           IN  ~again.ok /\ again.group = g
        /\ ~check(Storage, last.type, last.ip, now).result

\* a check is rejected some time after the bucket was last checked, before one
\* token has refilled
C2_Witness ==
  /\ LastIsCheck /\ ~last.result
  /\ \E i \in LastLevels :
       Updated(i).tokens = 0 /\ last.pre[i].last_checked < now /\ ~last.created[i]

----------------------------------------------------------------------------
(* C3 *)

\* C3: at every level where the last check's check_total succeeded (the bucket
\* updated to now has tokens) the stored bucket has last_checked = now and exactly
\* one token less than the refill-only update; an IPv4 check then returned true.
C3_ConsumesExactlyOne ==
  LastIsCheck =>
    \A i \in LastLevels :
      Updated(i).tokens # 0 =>
        /\ StoredBucket(i) = [last_checked |-> now, tokens |-> Updated(i).tokens - 1]
        /\ last.ip.kind = "V4" => last.result

\* a check succeeds on a bucket that has refilled since it was last checked
C3_Witness ==
  /\ LastIsCheck /\ last.result
  /\ \E i \in LastLevels :
       /\ last.pre[i].last_checked < now
       /\ Updated(i).tokens > last.pre[i].tokens
       /\ StoredBucket(i).tokens = Updated(i).tokens - 1

----------------------------------------------------------------------------
(* C4 *)

FloorDiv(a, b) == a \div b

\* C4: for a bucket (t0, T0), a time now = T0 + d with d >= 0 and a configuration
\* with capacity >= 0 and secs_to_refill > 0, update returns last_checked = now
\* and tokens = min(capacity, t0 + floor(d * capacity / secs_to_refill)), and it
\* depends on nothing but its arguments.
C4_UpdateFormula ==
  (call.fn = "update" /\ call.done /\ call.now >= call.self.last_checked) =>
    LET d == call.now - call.self.last_checked
    IN  call.out =
          [last_checked |-> call.now,
           tokens |-> Min(call.config.capacity,
                          call.self.tokens
                            + FloorDiv(d * call.config.capacity, call.config.secs_to_refill))]

\* update was applied where the refill is a fraction rounded down and stays
\* under the capacity
C4_Witness ==
  /\ call.fn = "update" /\ call.done
  /\ call.now > call.self.last_checked
  /\ ((call.now - call.self.last_checked) * call.config.capacity)
       % call.config.secs_to_refill # 0
  /\ call.out.tokens > call.self.tokens
  /\ call.out.tokens < call.config.capacity

----------------------------------------------------------------------------
(* C5 *)

\* the IPv4 addresses of the clients
Ipv4Addrs == {ip.addr : ip \in Ipv4Set}

\* C5: a check for an address A, whatever it returns, leaves every other IPv4
\* address B as it was: B is tracked after the check iff it was before, B's group
\* is unchanged, and a check for B of any action type returns after A's check
\* what it would have returned before it. (Step by step, this makes the result
\* of a check for B independent of any number of checks for A before it.)
C5_Ipv4Isolated ==
  [][ last'.op = "check" =>
        \A b \in Ipv4Addrs :
          (last'.ip.kind = "V6" \/ b # last'.ip.addr) =>
            /\ (b \in DOMAIN ipv4_buckets') = (b \in DOMAIN ipv4_buckets)
            /\ b \in DOMAIN ipv4_buckets => ipv4_buckets'[b] = ipv4_buckets[b]
            /\ \A t \in CheckedTypes :
                 check(Storage', t, [kind |-> "V4", addr |-> b], now').result
                   = check(Storage, t, [kind |-> "V4", addr |-> b], now).result ]_vars

\* an IPv4 address has used up its tokens and is rejected while another tracked
\* IPv4 address still passes
C5_Witness ==
  /\ LastIsCheck /\ last.ip.kind = "V4" /\ ~last.result /\ ~last.created[1]
  /\ \E b \in DOMAIN ipv4_buckets :
       /\ b # last.ip.addr
       /\ check(Storage, last.type, [kind |-> "V4", addr |-> b], now).result

----------------------------------------------------------------------------
(* C6 *)

\* C6: an IPv6 check returns true iff each of the three levels, updated to now
\* with its own scaled configuration, has at least one token; one level at 0
\* makes the result false.
C6_Ipv6AllLevels ==
  (LastIsCheck /\ last.ip.kind = "V6") =>
    /\ last.result = (\A i \in 1..3 : Updated(i).tokens >= 1)
    /\ (\E i \in 1..3 : Updated(i).tokens = 0) => ~last.result

\* an IPv6 check is rejected by its /48 level alone: the /56 and /64 levels had
\* tokens
C6_Witness ==
  /\ LastIsCheck /\ last.ip.kind = "V6" /\ ~last.result
  /\ Updated(1).tokens = 0
  /\ Updated(2).tokens >= 1
  /\ Updated(3).tokens >= 1

----------------------------------------------------------------------------
(* C7 *)

\* C7: the first check from a /64 prefix never seen before passes as long as no
\* more than 16 * capacity checks of that action type (this one included) have
\* hit its /48 group and no more than 4 * capacity its /56 group since they were
\* created; with capacity 1, two addresses of one /48 that differ in their /64
\* both pass their first check.
C7_FreshPrefixPasses ==
  (/\ LastIsCheck /\ last.ip.kind = "V6" /\ last.created[3]
   /\ bucket_configs[last.type].capacity >= 1
   /\ meta[PathsOf(last.ip)[1]].hits[last.type] <= 16 * bucket_configs[last.type].capacity
   /\ meta[PathsOf(last.ip)[2]].hits[last.type] <= 4 * bucket_configs[last.type].capacity)
    => last.result

----------------------------------------------------------------------------
(* C8 *)

\* C8: a group that check creates is seeded, for every action type, with
\* last_checked = now and the capacity of its level's multiplied configuration:
\* 16 * capacity at /48, 4 * capacity at /56, capacity at /64 and for IPv4; so
\* after k checks at one instant a bucket of a /48 group created at that instant
\* holds 16 * capacity - k tokens (4 * capacity - k at /56, capacity - k at /64).
C8_SeededAtScaledCapacity ==
  /\ LastIsCheck =>
       \A i \in LastLevels :
         last.created[i] =>
           /\ last.pre[i] = [last_checked |-> now,
                             tokens |-> FactorsOf(last.ip)[i] * bucket_configs[last.type].capacity]
           /\ \A t \in ActionType \ {last.type} :
                GroupAt(Storage, PathsOf(last.ip)[i]).total[t]
                  = [last_checked |-> now,
                     tokens |-> FactorsOf(last.ip)[i] * bucket_configs[t].capacity]
  /\ \A p \in Paths(Storage) : \A t \in CheckedTypes :
       meta[p].born = now =>
         GroupAt(Storage, p).total[t].tokens
           = Max(0, FactorAt(p) * bucket_configs[t].capacity - meta[p].hits[t])

----------------------------------------------------------------------------
(* C9 *)

\* C9: when every bucket of every tracked group (IPv4 and the three IPv6 levels)
\* was last checked at least its action type's secs_to_refill before now,
\* remove_full_buckets(now) leaves ipv4_buckets and ipv6_buckets empty.
C9_StaleSweepEmpties ==
  (last.op = "remove_full_buckets" /\ last.stale) =>
    /\ DOMAIN ipv4_buckets = {}
    /\ DOMAIN ipv6_buckets = {}

\* a sweep found an IPv4 group and IPv6 groups of all three levels, five groups
\* or more, all of them last checked a refill interval ago
C9_Witness ==
  /\ last.op = "remove_full_buckets" /\ last.stale
  /\ last.tracked >= 5

----------------------------------------------------------------------------
(* C10 *)

\* C10: every check returns what it returns on a storage that got the same
\* checks at the same times and was never swept.
C10_SweepInvisible ==
  LastIsCheck => last.result = nogc.result

----------------------------------------------------------------------------
(* C11 *)

\* C11: set_config replaces bucket_configs and nothing else: ipv4_buckets and
\* ipv6_buckets, with every bucket's tokens and last_checked, are the same after
\* the call; and a check after a reload, at every level, works on the bucket as
\* it was stored (its tokens and last_checked) with the new capacity and refill
\* interval: it stores the update under the new configuration less one token, or
\* leaves the bucket alone when that update has no token.
C11_SetConfigKeepsBuckets ==
  /\ [][ last'.op = "set_config" =>
            /\ ipv4_buckets' = ipv4_buckets
            /\ ipv6_buckets' = ipv6_buckets
            /\ \E new_configs \in ConfigSet : bucket_configs' = new_configs ]_vars
  /\ [][ (last'.op = "check" /\ nreloads >= 1) =>
            \A i \in 1..Len(PathsOf(last'.ip)) :
              LET p == PathsOf(last'.ip)[i]
                  config == [capacity |-> FactorsOf(last'.ip)[i] * bucket_configs[last'.type].capacity,
                             secs_to_refill |-> bucket_configs[last'.type].secs_to_refill]
              IN  HasGroup(Storage, p) =>
                    LET bucket == GroupAt(Storage, p).total[last'.type]
                        new_bucket == update(bucket, now, config)
                    IN  GroupAt(Storage', p).total[last'.type]
                          = IF new_bucket.tokens = 0 THEN bucket
                            ELSE [new_bucket EXCEPT !.tokens = new_bucket.tokens - 1] ]_vars

\* after a reload that lowered the capacity, a check found a bucket holding more
\* tokens than the new capacity
C11_Witness ==
  /\ LastIsCheck /\ nreloads >= 1
  /\ bucket_configs # nogc.self.bucket_configs
  /\ \E i \in LastLevels :
       /\ ~last.created[i]
       /\ last.pre[i].tokens > LevelConfig(i).capacity
       /\ StoredBucket(i).tokens = LevelConfig(i).capacity - 1

----------------------------------------------------------------------------
(* C18 *)

\* C18: an IPv6 check evaluates all three levels on every call: whatever the
\* other levels return, a level that has a token after its update ends one token
\* lower with last_checked = now, and a level that has none is left as it was. A
\* check rejected at /48 still takes a token from the /56 and /64 buckets that
\* had one.
C18_NoShortCircuit ==
  (LastIsCheck /\ last.ip.kind = "V6") =>
    \A i \in 1..3 :
      LET alone == check_total([total |-> [t \in ActionType |-> last.pre[i]], children |-> Default],
                               last.type, now, LevelConfig(i))
      IN  /\ StoredBucket(i) = alone.group.total[last.type]
          /\ alone.ok => StoredBucket(i) = [last_checked |-> now, tokens |-> Updated(i).tokens - 1]
          /\ ~alone.ok => StoredBucket(i) = last.pre[i]

\* a check rejected by an empty /48 bucket took a token from the /56 and the /64
\* bucket
C18_Witness ==
  /\ LastIsCheck /\ last.ip.kind = "V6" /\ ~last.result
  /\ Updated(1).tokens = 0
  /\ StoredBucket(1) = last.pre[1]
  /\ Updated(2).tokens >= 1 /\ StoredBucket(2).tokens = Updated(2).tokens - 1
  /\ Updated(3).tokens >= 1 /\ StoredBucket(3).tokens = Updated(3).tokens - 1

----------------------------------------------------------------------------
(* C19 *)

\* C19: at level i of a check the bucket is refilled and clamped with the action
\* type's capacity C times the level's factor (16 at /48, 4 at /56, 1 at /64 and
\* for IPv4) and with the unscaled secs_to_refill S: with d seconds since the
\* bucket was last checked it holds min(tokens + floor(d * factor * C / S),
\* factor * C), less the token taken.
C19_LevelConfigs ==
  LastIsCheck =>
    \A i \in LastLevels :
      LET C == bucket_configs[last.type].capacity
          S == bucket_configs[last.type].secs_to_refill
          factor == IF last.ip.kind = "V4" THEN 1 ELSE <<16, 4, 1>>[i]
          d == now - last.pre[i].last_checked
          refilled == Min(last.pre[i].tokens + ((d * factor * C) \div S), factor * C)
      IN  StoredBucket(i) = IF refilled = 0 THEN last.pre[i]
                            ELSE [last_checked |-> now, tokens |-> refilled - 1]

\* a /48 bucket that was used before has refilled to 16 times the capacity
C19_Witness ==
  /\ LastIsCheck /\ last.ip.kind = "V6" /\ ~last.created[1]
  /\ last.pre[1].last_checked < now
  /\ StoredBucket(1).tokens = 16 * bucket_configs[last.type].capacity - 1
  /\ StoredBucket(2).tokens = 4 * bucket_configs[last.type].capacity - 1

----------------------------------------------------------------------------
(* C20 *)

\* C20: remove_full_buckets(now) keeps an IPv4 group iff the bucket of at least
\* one action type, updated to now, has tokens other than the capacity; it
\* removes a group only when the buckets of all action types would be full.
C20_KeptIffSomeBucketOwes ==
  [][ last'.op = "remove_full_buckets" =>
        \A a \in DOMAIN ipv4_buckets :
          (a \in DOMAIN ipv4_buckets')
            = (\E t \in ActionType :
                 update(ipv4_buckets[a].total[t], now, bucket_configs[t]).tokens
                   # bucket_configs[t].capacity) ]_vars

----------------------------------------------------------------------------
(* C16 *)

\* the five forms of source address text that denote an address
OwnAddress ==
  (<<"1.2.3.4">> :> V4(1, 2, 3, 4))
  @@ (<<"1.2.3.4", ":8000">> :> V4(1, 2, 3, 4))
  @@ (<<"2001:db8::">> :> Literal["2001:db8::"])
  @@ (<<"[", "2001:db8::", "]">> :> Literal["2001:db8::"])
  @@ (<<"[", "2001:db8::", "]", ":8000">> :> Literal["2001:db8::"])

\* C16: get_ip always yields an address, never an error. An IPv4 address, an
\* IPv4 address with port, an IPv6 address and a bracketed IPv6 address with or
\* without port yield their own address. An absent source, a source parse_ip
\* cannot parse and any source without an address in it yield 127.0.0.1, and the
\* request is then checked in the IPv4 group of 127.0.0.1 and in no other group.
C16_UnparseableIsLoopback ==
  (call.fn = "get_ip" /\ call.done) =>
    LET conn_info == call.conn_info
        unparseable == ~conn_info.some \/ ~parse_ip(conn_info.val).some
    IN  /\ call.out.kind \in {"V4", "V6"}
        /\ (conn_info.some /\ conn_info.val \in DOMAIN OwnAddress) =>
             call.out = OwnAddress[conn_info.val]
        /\ unparseable => call.out = V4(127, 0, 0, 1)
        /\ (conn_info.some /\ \A i \in 1..Len(conn_info.val) :
                                conn_info.val[i] \notin DOMAIN Literal) => unparseable
        /\ (unparseable /\ nchecks = 1) =>
             /\ DOMAIN ipv4_buckets = {<<127, 0, 0, 1>>}
             /\ DOMAIN ipv6_buckets = {}
             /\ last.ip = V4(127, 0, 0, 1)

\* a request whose source holds an address but is not an address was checked in
\* the group of 127.0.0.1
C16_Witness ==
  /\ call.fn = "get_ip" /\ call.done /\ nchecks = 1
  /\ call.conn_info.some
  /\ \E i \in 1..Len(call.conn_info.val) : call.conn_info.val[i] \in DOMAIN Literal
  /\ <<127, 0, 0, 1>> \in DOMAIN ipv4_buckets

----------------------------------------------------------------------------
(* C17 *)

\* C17: every call of RateLimitChecker.check comes to its end and returns a bool
\* (the middleware gets to dispatch on it), and the lock, once taken by a check, a
\* set_config or a sweep, is released.
C17_CheckReturnsBoolLockReleased ==
  /\ \A w \in Workers : (tasks[w].pc = "lock") ~> (tasks[w].pc = "dispatch")
  /\ (mutex.holders # {}) ~> (mutex.holders = {})

\* C17, as far as it holds: every call of RateLimitChecker.check comes to an end,
\* and the lock is released, also when the holder panics. A call ends in a panic,
\* and the lock is poisoned, only under a configuration with an action type
\* whose secs_to_refill is 0.
C17_ChecksEndLockReleased ==
  /\ \A w \in Workers : (tasks[w].pc = "lock") ~> (tasks[w].pc \in {"ready", "dispatch"})
  /\ (mutex.holders # {}) ~> (mutex.holders = {})
  /\ [](mutex.poisoned => \E t \in ActionType : update_panics(bucket_configs[t]))
  /\ [](\A w \in Workers : tasks[w].response = "panic" => mutex.poisoned)

\* a check panicked with the lock held and let it go, and the check of every
\* other task panicked at the poisoned lock
C17_Witness ==
  /\ mutex.poisoned /\ mutex.holders = {}
  /\ \E i \in DOMAIN mutex.log : mutex.log[i].result = "panic"
  /\ \A w \in Workers : tasks[w].pc = "ready" /\ tasks[w].checks = 1
                           /\ tasks[w].response = "panic"

----------------------------------------------------------------------------
(* C12 *)

\* C12: whatever the order in which tasks first call RateLimitCell::new, the
\* init runs once: one storage is made and one sweep task is spawned, one task
\* at most is in the init, every task that is past new has the one cell, and
\* the cell goes Uninitialized -> Initializing -> Ready and stays Ready.
C12_InitOnce ==
  /\ [](/\ cell.inits <= 1 /\ cell.sweepers <= 1
        /\ cell.state = "Ready" <=> (cell.inits = 1 /\ cell.sweepers = 1)
        /\ cell.state = "Ready" <=> sweeper # "none"
        /\ cell.state = "Initializing" <=> (\E w \in Workers : tasks[w].pc = "init")
        /\ Cardinality({w \in Workers : tasks[w].pc = "init"}) <= 1
        /\ \A w \in Workers :
             tasks[w].pc \notin {"new", "init", "wait"} => cell.state = "Ready")
  /\ [][/\ cell.state = "Uninitialized" => cell'.state \in {"Uninitialized", "Initializing"}
        /\ cell.state = "Initializing" => cell'.state \in {"Initializing", "Ready"}
        /\ cell.state = "Ready" => cell' = cell]_vars

\* a task called new while another was in the init, waited, and has the cell
\* that the other made
C12_Witness ==
  /\ cell = [state |-> "Ready", inits |-> 1, sweepers |-> 1]
  /\ \A w \in Workers : tasks[w].pc = "ready"
  /\ \E w \in Workers : tasks[w].waited /\ tasks[w].config # bucket_configs

----------------------------------------------------------------------------
(* C13 *)

\* C13: a call of RateLimitCell::new that finds the cell initialized returns that
\* cell: the step leaves the cell, the configuration in force, the groups of both
\* maps, the lock and the sweep task as they were, and the caller goes on with
\* the cell that is there.
C13_LaterNewReturnsCell ==
  [][\A w \in Workers :
       (tasks[w].pc = "new" /\ cell.state = "Ready" /\ tasks'[w] # tasks[w]) =>
         /\ tasks'[w].pc = "ready"
         /\ cell' = cell
         /\ bucket_configs' = bucket_configs
         /\ ipv4_buckets' = ipv4_buckets /\ ipv6_buckets' = ipv6_buckets
         /\ mutex' = mutex
         /\ sweeper' = sweeper]_vars

\* a task called new with another configuration after requests were checked, and
\* the groups and the first configuration are still there
C13_Witness ==
  \E w \in Workers :
    /\ tasks[w].pc = "ready" /\ tasks[w].late /\ ~tasks[w].waited
    /\ tasks[w].config # bucket_configs
    /\ nreloads = 0
    /\ Paths(Storage) # {}
    /\ cell = [state |-> "Ready", inits |-> 1, sweepers |-> 1]

----------------------------------------------------------------------------
(* C14 *)

\* the checks that have returned, in the order in which they took the lock
Returned == {i \in DOMAIN mutex.log : mutex.log[i].result \in {"true", "false"}}

\* C14: checks are serialized by the lock and no update is lost. One task at
\* most holds the lock, and a check that has not returned is the last to have
\* taken it. Under the configuration the cell was made with, the k-th check of
\* an action type on a group made with N tokens returns true exactly when
\* k <= N, where k counts in the order of taking the lock, and every bucket
\* holds N less the number of checks that passed. When M tasks have checked
\* one address at one instant, the first min(M, N) to take the lock, and no
\* others, got true, and the bucket holds N - min(M, N) tokens.
C14_SerializedNoLostUpdate ==
  /\ Cardinality(mutex.holders) <= 1
  /\ \A i \in DOMAIN mutex.log :
       mutex.log[i].result = "pending" =>
         /\ i = Len(mutex.log)
         /\ mutex.holders = {mutex.log[i].task}
  /\ (nreloads = 0 /\ ~mutex.poisoned) =>
       /\ \A i \in Returned :
            /\ mutex.log[i].k >= 1
            /\ (mutex.log[i].result = "true") <=> (mutex.log[i].k <= mutex.log[i].capacity)
       /\ \A i, j \in Returned :
            (i < j /\ mutex.log[i].ip = mutex.log[j].ip
                   /\ \A h \in Returned : (i < h /\ h < j) => mutex.log[h].ip # mutex.log[i].ip) =>
              mutex.log[j].k \in {mutex.log[i].k + 1, 1}
       /\ \A q \in Paths(Storage) : \A t \in ServerTypes :
            GroupAt(Storage, q).total[t].tokens =
              Max(0, bucket_configs[t].capacity - meta[q].hits[t])
       /\ LET M == Len(mutex.log)
              N == bucket_configs["Message"].capacity
          IN  (/\ M = MaxWorkers * MaxCalls
               /\ Returned = 1..M
               /\ mutex.log[M].k = M) =>
                /\ {i \in 1..M : mutex.log[i].result = "true"} = 1..Min(M, N)
                /\ \A q \in Paths(Storage) :
                     GroupAt(Storage, q).total["Message"].tokens = N - Min(M, N)

\* two tasks asked for the lock before either had it and checked one address
\* whose bucket held one token: one check returned true, the other false
C14_Witness ==
  /\ nreloads = 0 /\ ~mutex.poisoned
  /\ Len(mutex.log) = 2 /\ Returned = {1, 2}
  /\ mutex.log[1].task # mutex.log[2].task
  /\ mutex.log[1].ip = mutex.log[2].ip
  /\ mutex.log[1].waiting = {mutex.log[2].task}
  /\ mutex.log[1].result = "true" /\ mutex.log[1].k = 1 /\ mutex.log[1].capacity = 1
  /\ mutex.log[2].result = "false" /\ mutex.log[2].k = 2
  /\ \A q \in Paths(Storage) : GroupAt(Storage, q).total["Message"].tokens = 0
  /\ Paths(Storage) # {}

----------------------------------------------------------------------------
(* C15 *)

\* C15: for every request the middleware calls the checker once, and before it
\* dispatches: the wrapped service is not called before check has returned; when
\* check returned false the service is not called and the response is the rate
\* limit error; when check returned true the service is called once.
C15_GateBeforeDispatch ==
  \A w \in Workers :
    LET t == tasks[w]
    IN  /\ t.checks <= 1 /\ t.served <= 1
        /\ t.pc \in {"lock", "check", "unlock", "dispatch"} =>
             (t.served = 0 /\ t.response = "none")
        /\ t.pc \in {"check", "unlock", "dispatch"} => t.checks = 1
        /\ t.response = "service" <=> t.served = 1
        /\ t.served = 1 => (t.checks = 1 /\ t.result)
        /\ t.response = "RateLimitError" => (t.checks = 1 /\ ~t.result /\ t.served = 0)
        /\ (t.pc = "ready" /\ t.checks = 1 /\ t.response # "panic") =>
             t.response = (IF t.result THEN "service" ELSE "RateLimitError")

\* one request was let through to the service and another was answered with the
\* rate limit error, its service not called
C15_Witness ==
  \E v, w \in Workers :
    /\ tasks[v].pc = "ready" /\ tasks[v].checks = 1 /\ tasks[v].result
    /\ tasks[v].served = 1 /\ tasks[v].response = "service"
    /\ tasks[w].pc = "ready" /\ tasks[w].checks = 1 /\ ~tasks[w].result
    /\ tasks[w].served = 0 /\ tasks[w].response = "RateLimitError"

----------------------------------------------------------------------------
(* C21 *)

\* some bucket of the group under path q, updated to now, is not full
OwesTokens(q) ==
  \E t \in ActionType :
    update(GroupAt(Storage, q).total[t], now, bucket_configs[t]).tokens
      # bucket_configs[t].capacity

\* C21: remove_full_buckets(now) keeps a /56 group iff one of its /64 children
\* is kept or its own buckets are not all full, and a /48 group iff one of its
\* /56 children is kept or its own buckets are not all full; every group that is
\* kept has its parent kept with it.
C21_PrunedBottomUp ==
  [][ last'.op = "remove_full_buckets" =>
        LET after == [ipv4_buckets |-> ipv4_buckets', ipv6_buckets |-> ipv6_buckets',
                      bucket_configs |-> bucket_configs']
            child(q, p) == Len(q) = Len(p) + 1 /\ SubSeq(q, 1, Len(p)) = p
        IN  /\ \A p \in Paths(Storage) :
                 (p[1] = "v6" /\ Len(p) \in {2, 3}) =>
                   (HasGroup(after, p)
                      = (\/ \E q \in Paths(Storage) : child(q, p) /\ HasGroup(after, q)
                         \/ OwesTokens(p)))
            /\ \A q \in Paths(after) :
                 Len(q) > 2 => SubSeq(q, 1, Len(q) - 1) \in Paths(after)
            /\ Paths(after) \subseteq Paths(Storage) ]_vars

----------------------------------------------------------------------------
(* C22 *)

\* C22: under a configuration with capacity >= 0 and secs_to_refill > 0, the
\* update that check_total computes for a bucket that checks have left behind
\* has 0 <= tokens <= capacity: the assertion new_bucket.tokens >= 0 holds and
\* no negative token count is stored.
C22_TokensWithinCapacity ==
  (call.fn = "update_at" /\ call.done) =>
    /\ ~call.panicked
    /\ 0 <= call.out.tokens
    /\ call.out.tokens <= call.config.capacity

----------------------------------------------------------------------------
(* C25 *)

\* C25: for every elapsed time of the unsigned type and every positive capacity
\* and secs_to_refill of the signed type, update returns exactly
\* min(capacity, tokens + floor(elapsed * capacity / secs_to_refill)): nothing
\* wraps on the way.
C25_RefillWithoutOverflow ==
  (call.fn = "update_at" /\ call.done) =>
    /\ ~call.panicked
    /\ call.out =
         [last_checked |-> call.now,
          tokens |-> Min(call.config.capacity,
                         call.self.tokens
                           + FloorDiv((call.now - call.self.last_checked) * call.config.capacity,
                                      call.config.secs_to_refill))]

----------------------------------------------------------------------------
(* C24 *)

\* C24: when now is earlier than the bucket's last_checked, update takes the
\* elapsed time as 0: it adds no tokens and returns last_checked = now and
\* tokens = min(tokens, capacity).
C24_EarlierNowAddsNothing ==
  (call.fn = "update" /\ call.done /\ call.now < call.self.last_checked) =>
    /\ saturating_sub(call.now, call.self.last_checked) = 0
    /\ call.out = [last_checked |-> call.now,
                   tokens |-> Min(call.self.tokens, call.config.capacity)]

\* update was applied at a time before last_checked to a bucket below its
\* capacity, under a configuration that would have refilled it had the time
\* passed
C24_Witness ==
  /\ call.fn = "update" /\ call.done
  /\ call.now < call.self.last_checked
  /\ call.self.tokens < call.config.capacity
  /\ call.config.capacity >= call.config.secs_to_refill
  /\ call.out.tokens = call.self.tokens

----------------------------------------------------------------------------
(* C23 *)

\* C23: a rejected check does not move the time from which a bucket refills.
\* The last_checked of every stored bucket is the time its action type last
\* passed there (or the group was made), however many checks were rejected
\* since; and a check made when, at every level it goes through, the capacity
\* is at least 1 and floor((now - that time) * capacity / secs_to_refill) >= 1,
\* which is so secs_to_refill seconds after that time at the latest, returns
\* true.
C23_RejectionDoesNotStallRefill ==
  /\ [](\A p \in Paths(Storage) : \A t \in ActionType :
          GroupAt(Storage, p).total[t].last_checked = meta[p].passed[t])
  /\ [][ last'.op = "check" =>
          LET ps == PathsOf(last'.ip)
              config == bucket_configs[last'.type]
              since(p) == IF HasGroup(Storage, p) THEN meta[p].passed[last'.type] ELSE now
              refilled(p) ==
                /\ FactorAt(p) * config.capacity >= 1
                /\ FloorDiv((now - since(p)) * FactorAt(p) * config.capacity,
                            config.secs_to_refill) >= 1
          IN  /\ (\A i \in 1..Len(ps) : refilled(ps[i])) => last'.result
              /\ \A i \in 1..Len(ps) :
                   (config.capacity >= 1 /\ now - since(ps[i]) >= config.secs_to_refill)
                     => refilled(ps[i]) ]_vars

\* an IPv4 address used its one token at time 0, was rejected before a token had
\* refilled, and passes at time 2 under a refill interval of 2 seconds
C23_Witness ==
  /\ LastIsCheck /\ last.result /\ last.ip.kind = "V4"
  /\ now = 2
  /\ bucket_configs[last.type] = BucketConfig(1, 2)
  /\ last.pre[1] = [last_checked |-> 0, tokens |-> 0]
  /\ meta[PathsOf(last.ip)[1]].hits[last.type] = 3
  /\ meta[PathsOf(last.ip)[1]].born = 0

----------------------------------------------------------------------------
(* C26 *)

\* C26: nothing turns down an interval of 0. The conversion from the settings
\* yields secs_to_refill 0 for an interval of 0 or below; RateLimitCell::new and
\* set_config put the configuration they are given in force as it is; and under
\* a configuration whose secs_to_refill is 0 for the action type, a check ends
\* in a panic without a result, and so does a sweep that has a group to test
\* (Message is the first action type it updates).
C26_ZeroIntervalFaults ==
  /\ [](\A rate_limit \in RateLimitConfigSet : \A t \in ActionType :
          From_RateLimitConfig(rate_limit)[t].secs_to_refill
            = IF enum_map_pairs(rate_limit)[t][2] <= 0 THEN 0
              ELSE enum_map_pairs(rate_limit)[t][2])
  /\ [][\A w \in Workers :
          /\ (tasks[w].pc = "init" /\ tasks'[w].pc # "init") =>
               bucket_configs' = tasks[w].config
          /\ (tasks[w].pc = "set_config" /\ tasks'[w].pc # "set_config") =>
               bucket_configs' = tasks[w].guard
          /\ (/\ tasks[w].pc = "check" /\ tasks'[w].pc # "check"
              /\ bucket_configs[tasks[w].type].secs_to_refill = 0) =>
               /\ tasks'[w].pc = "ready" /\ tasks'[w].response = "panic"
               /\ nchecks' = nchecks
               /\ mutex'.poisoned]_vars
  /\ [][(/\ sweeper = "sweep" /\ sweeper' # "sweep"
          /\ Paths(Storage) # {}
          /\ bucket_configs["Message"].secs_to_refill = 0) =>
           (sweeper' = "panicked" /\ mutex'.poisoned)]_vars

\* the limiter answered a request, set_config put a configuration with an
\* interval of 0 in force, and the next check ended in a panic
C26_Witness ==
  /\ nreloads = 1
  /\ bucket_configs = ZeroIntervalConfig
  /\ \E i, j \in DOMAIN mutex.log :
       /\ i < j
       /\ mutex.log[i].result = "true"
       /\ mutex.log[j].result = "panic"
       /\ tasks[mutex.log[j].task].response = "panic"

----------------------------------------------------------------------------
(* C27 *)

\* C27: a panic of the task that holds the lock poisons it for good. The lock
\* becomes poisoned only when its holder panics and it stays poisoned; from then
\* on nobody holds it, a check that comes to the lock ends in a panic without a
\* result, a set_config that comes to it ends with the configuration as it was,
\* the sweep task ends, and the storage, configuration included, never changes
\* again.
C27_PoisonedForGood ==
  /\ [](mutex.poisoned => mutex.holders = {})
  /\ [][/\ (mutex'.poisoned /\ ~mutex.poisoned) =>
            (mutex.holders # {} /\ mutex'.holders = {})
        /\ mutex.poisoned =>
            /\ mutex'.poisoned
            /\ ipv4_buckets' = ipv4_buckets /\ ipv6_buckets' = ipv6_buckets
            /\ bucket_configs' = bucket_configs
            /\ nchecks' = nchecks
            /\ \A w \in Workers :
                 /\ (tasks[w].pc = "lock" /\ tasks'[w].pc # "lock") =>
                      (tasks'[w].pc = "ready" /\ tasks'[w].response = "panic")
                 /\ (tasks[w].pc = "lock_config" /\ tasks'[w].pc # "lock_config") =>
                      tasks'[w].pc = "ready"
                 /\ tasks'[w].pc \notin {"check", "unlock", "set_config"}
            /\ (sweeper = "lock" /\ sweeper' # "lock") => sweeper' = "panicked"
            /\ sweeper' # "sweep"]_vars

\* a check panicked with the lock held; after that another task's check ended
\* in a panic at the lock, and so did the sweep task
C27_Witness ==
  /\ mutex.poisoned
  /\ sweeper = "panicked"
  /\ \E i \in DOMAIN mutex.log : mutex.log[i].result = "panic"
  /\ \E w \in Workers :
       /\ tasks[w].pc = "ready" /\ tasks[w].checks = 1 /\ tasks[w].response = "panic"
       /\ \A i \in DOMAIN mutex.log : mutex.log[i].task # w

----------------------------------------------------------------------------
(* C28 *)

\* the sweep task goes round its loop: sleep, lock, remove_full_buckets (the
\* children, then the parents), sleep
SweepLoop ==
  [][/\ sweeper = "sleep" => sweeper' \in {"sleep", "lock"}
     /\ sweeper = "lock" => sweeper' \in {"lock", "sweep", "panicked"}
     /\ sweeper = "sweep" => sweeper' \in {"sweep", "sweep_parents", "panicked"}
     /\ sweeper = "sweep_parents" => sweeper' \in {"sweep_parents", "sleep"}
     /\ sweeper = "panicked" => sweeper' = "panicked"]_vars

\* a step that takes a group out of the storage is the sweep task's
\* remove_full_buckets, and no step of a check is; nor does a check start a
\* group over: while the configuration is the first one, every group has paid
\* one token for each check it has passed since it was made
PruningOnlyInSweep ==
  /\ [][~(Paths(Storage) \subseteq
          Paths([ipv4_buckets |-> ipv4_buckets', ipv6_buckets |-> ipv6_buckets',
                 bucket_configs |-> bucket_configs'])) =>
         /\ sweeper \in {"sweep", "sweep_parents"} /\ sweeper' # sweeper
         /\ \A w \in Workers : tasks'[w] = tasks[w]]_vars
  /\ []((nreloads = 0 /\ ~mutex.poisoned) =>
          \A q \in Paths(Storage) :
            GroupAt(Storage, q).total["Message"].tokens
              = Max(0, bucket_configs["Message"].capacity - meta[q].hits["Message"]))

----------------------------------------------------------------------------
(* C29 *)

\* the sweep task holds the guard: it is inside remove_full_buckets
Sweeping == sweeper \in {"sweep", "sweep_parents"}

\* task w holds the guard: it is inside check or set_config
Inside(w) == tasks[w].pc \in {"check", "unlock", "set_config"}

\* C29: the sweep holds the storage lock for the whole of remove_full_buckets:
\* at most one of the sweep, the checks and set_config is inside the critical
\* section at any time, the map changes under a sweep by the sweep's own steps
\* only, and no check reads or writes a partly pruned map: the storage a check
\* writes back is the one it computed from the storage that is still there.
C29_SweepIsAtomic ==
  [][/\ Cardinality(mutex.holders) <= 1
     /\ Sweeping <=> 0 \in mutex.holders
     /\ \A w \in Workers : Inside(w) <=> w \in mutex.holders
     /\ Sweeping =>
          /\ \A w \in Workers : ~Inside(w) /\ (tasks[w].pc' # tasks[w].pc => ~Inside(w)')
          /\ Storage' # Storage => sweeper' # sweeper
     /\ \A w \in Workers :
          tasks[w].pc = "unlock" =>
            tasks[w].guard = check(Storage, tasks[w].type, tasks[w].ip, tasks[w].at)
     /\ \A w \in Workers :
          (tasks[w].pc \in {"check", "unlock"} /\ tasks[w].pc' # tasks[w].pc) =>
            /\ ~Sweeping /\ ~Sweeping'
            /\ \A v \in Workers \ {w} : ~Inside(v)]_vars

\* the sweep is half way, with a /56 group whose /64 children are gone and
\* whose own retention is not decided yet, while a request waits for the lock
C29_Witness ==
  /\ sweeper = "sweep_parents"
  /\ Storage # remove_full_buckets(Storage, now)
  /\ \E k48 \in DOMAIN ipv6_buckets :
       \E k56 \in DOMAIN ipv6_buckets[k48].children :
         DOMAIN ipv6_buckets[k48].children[k56].children = {}
  /\ \E w \in Workers : tasks[w].pc = "lock" /\ tasks[w].ip.kind = "V6"

----------------------------------------------------------------------------
(* C30 *)

\* the keys a check for ip looks up: its own address in ipv4_buckets, or its own
\* /48, /56 and /64 along one chain of ipv6_buckets
OwnKeys(ip) == {PathsOf(ip)[i] : i \in 1..Len(PathsOf(ip))}

\* C30: groups are created only by a check for their own key, on first access:
\* a step that is no check (remove_full_buckets, set_config, the clock) adds no
\* group; a check adds just the groups of its own keys that were not there, at
\* most one per level; an IPv4 check leaves ipv6_buckets as it is, an IPv6
\* check leaves ipv4_buckets as it is, and groups of other keys stay as they were.
C30_CreatedByOwnCheckOnly ==
  [][LET added == Paths(Storage') \ Paths(Storage)
     IN  IF nchecks' # nchecks
         THEN /\ added = {p \in OwnKeys(last'.ip) : ~HasGroup(Storage, p)}
              /\ OwnKeys(last'.ip) \subseteq Paths(Storage')
              /\ \A n \in 2..4 : Cardinality({p \in added : Len(p) = n}) <= 1
              /\ last'.ip.kind = "V4" =>
                   Cardinality(added) <= 1 /\ ipv6_buckets' = ipv6_buckets
              /\ last'.ip.kind = "V6" => ipv4_buckets' = ipv4_buckets
              /\ \A p \in Paths(Storage) \ OwnKeys(last'.ip) :
                   /\ p \in Paths(Storage')
                   /\ GroupAt(Storage', p).total = GroupAt(Storage, p).total
         ELSE added = {}]_vars

\* an IPv6 check found its /48 and /56 groups and created its /64 group, in a
\* storage that holds an IPv4 group and another /64 group
C30_Witness ==
  /\ last.op = "check" /\ last.ip.kind = "V6"
  /\ last.created = <<FALSE, FALSE, TRUE>>
  /\ DOMAIN ipv4_buckets # {}
  /\ Cardinality({p \in Paths(Storage) : Len(p) = 4}) = 2

----------------------------------------------------------------------------
(* C31 *)

\* the first n bytes of the two addresses are the same
SamePrefix(n) == SubSeq(call.ips[1].addr, 1, n) = SubSeq(call.ips[2].addr, 1, n)

\* the groups of level i (1: /48, 2: /56, 3: /64) in the storage
GroupsOfLevel(i) == {p \in Paths(Storage) : p[1] = "v6" /\ Len(p) = i + 1}

\* C31: IPv6 addresses are keyed by their first 48 bits, then bits 49-56, then
\* bits 57-64, and the last 64 bits are ignored: two addresses have the same
\* /48 key iff their first 6 bytes are equal, the same /56 group iff their first
\* 7 bytes are equal and the same /64 group iff their first 8 bytes are equal;
\* after a check from each, a level holds one group when the prefix is shared,
\* and that group's bucket was drawn on twice, and two groups drawn on once
\* each when it is not.
C31_KeyedByPrefix ==
  (call.fn = "split_ipv6" /\ call.done) =>
    LET k1 == call.out[1]
        k2 == call.out[2]
    IN  /\ k1[1] = k2[1] <=> SamePrefix(6)
        /\ (k1[1] = k2[1] /\ k1[2] = k2[2]) <=> SamePrefix(7)
        /\ k1 = k2 <=> SamePrefix(8)
        /\ call.ips[1] = TestSplitIp => k1 = <<(<<0, 17, 34, 51, 68, 85>>), 102, 119>>
        /\ nchecks = 2 =>
             \A i \in 1..3 :
               /\ Cardinality(GroupsOfLevel(i)) = IF SamePrefix(5 + i) THEN 1 ELSE 2
               /\ \A j \in 1..2 :
                    GroupAt(Storage, PathsOf(call.ips[j])[i]).total["Message"].tokens
                      = IF SamePrefix(5 + i) THEN 0 ELSE 1

\* two different addresses of one /64 were checked: there is one group at each
\* level, and both checks passed and emptied the same three buckets
C31_Witness ==
  /\ call.fn = "split_ipv6" /\ call.done /\ nchecks = 2
  /\ call.ips[1] # call.ips[2]
  /\ SamePrefix(8)
  /\ last.result
  /\ Cardinality(Paths(Storage)) = 3
  /\ \A p \in Paths(Storage) : GroupAt(Storage, p).total["Message"].tokens = 0

----------------------------------------------------------------------------
(* C32 *)

\* the number of Message requests from ip that passed at a time in t..(t + d)
PassesIn(ip, t, d) ==
  Cardinality({i \in 1..Len(call.passes) :
                 /\ call.passes[i].ip = ip
                 /\ t <= call.passes[i].at /\ call.passes[i].at <= t + d})

\* C32: under a fixed configuration (capacity C, secs_to_refill S), times that
\* never go back and no sweep, the checks of one action type that return true
\* for one IPv4 address within any d seconds are at most C + floor(d * C / S).
C32_RateBound ==
  call.fn = "check" =>
    \A ip \in Ipv4Set : \A t \in 0..MaxTime : \A d \in 0..(MaxTime - t) :
      PassesIn(ip, t, d)
        <= bucket_configs["Message"].capacity
           + TruncDiv(d * bucket_configs["Message"].capacity,
                      bucket_configs["Message"].secs_to_refill)

\* an address used its whole burst at one second and a request of it was turned
\* down, and it reached the bound over two seconds as well
C32_Witness ==
  /\ call.fn = "check"
  /\ bucket_configs["Message"] = BucketConfig(1, 1)
  /\ \E ip \in Ipv4Set :
       /\ PassesIn(ip, 0, 0) = 1
       /\ PassesIn(ip, 0, 2) = 3
       /\ last.op = "check" /\ last.ip = ip /\ ~last.result

----------------------------------------------------------------------------
(* C33 *)

\* C33: action types are independent inside an existing group: a check for an
\* action type on a key whose groups all exist changes nothing but the bucket
\* of that action type in the groups of the key; the buckets of every other
\* action type are as they were, and a check of another action type, from any
\* address and now or later, returns what it would have returned before.
C33_ActionTypesIndependent ==
  [][(nchecks' # nchecks /\ \A p \in OwnKeys(last'.ip) : HasGroup(Storage, p)) =>
       /\ Paths(Storage') = Paths(Storage)
       /\ \A p \in Paths(Storage) : \A t \in ActionType :
            (p \notin OwnKeys(last'.ip) \/ t # last'.type) =>
              GroupAt(Storage', p).total[t] = GroupAt(Storage, p).total[t]
       /\ \A t \in ActionType \ {last'.type} : \A ip \in IpSet : \A now_ \in now..MaxTime :
            check(Storage', t, ip, now_).result = check(Storage, t, ip, now_).result]_vars

\* a Post request of an IPv6 address passed while the Message bucket of its
\* /64 group was empty and a Message request of it would be turned down
C33_Witness ==
  /\ last.op = "check" /\ last.type = "Post" /\ last.ip.kind = "V6" /\ last.result
  /\ last.created = <<FALSE, FALSE, FALSE>>
  /\ GroupAt(Storage, PathsOf(last.ip)[3]).total["Message"].tokens = 0
  /\ ~check(Storage, "Message", last.ip, now).result

----------------------------------------------------------------------------
(* C34 *)

\* C34: remove_full_buckets only removes: it adds no group, every bucket of
\* every group it retains has the tokens and last_checked it had before the
\* sweep (the update made for the fullness test is not written back), and
\* bucket_configs is unchanged.
C34_SweepOnlyRemoves ==
  [][last'.op = "remove_full_buckets" =>
       /\ Paths(Storage') \subseteq Paths(Storage)
       /\ \A p \in Paths(Storage') : GroupAt(Storage', p).total = GroupAt(Storage, p).total
       /\ bucket_configs' = bucket_configs]_vars

\* a sweep found groups and retained one whose buckets were last checked
\* before the sweep's now: the update of the fullness test differs from what
\* is stored
C34_Witness ==
  /\ last.op = "remove_full_buckets" /\ last.tracked > 0
  /\ \E p \in Paths(Storage) : \A t \in ActionType :
       /\ GroupAt(Storage, p).total[t].last_checked < now
       /\ update(GroupAt(Storage, p).total[t], now, bucket_configs[t])
            # GroupAt(Storage, p).total[t]

----------------------------------------------------------------------------
(* C35 *)

\* C35: while the configuration in force gives an action type the capacity 0,
\* every check of that action type returns false, for every IPv4 and IPv6
\* address and at every time, and such a check leaves the bucket of that action
\* type in every group there was as it is (it may create groups for a new key).
C35_ZeroCapacityBlocks ==
  [][/\ \A t \in ActionType :
          bucket_configs[t].capacity = 0 =>
            \A ip \in BusyIpSet : \A now_ \in now..MaxTime :
              ~check(Storage, t, ip, now_).result
     /\ (nchecks' # nchecks /\ bucket_configs[last'.type].capacity = 0) =>
          /\ ~last'.result
          /\ \A p \in Paths(Storage) :
               /\ p \in Paths(Storage')
               /\ GroupAt(Storage', p).total[last'.type]
                    = GroupAt(Storage, p).total[last'.type]]_vars

\* after a set_config that took the capacity away, a request was turned down
\* although the stored bucket of its /48 group still holds a token, and a /64
\* group was created for its key
C35_Witness ==
  /\ last.op = "check" /\ ~last.result /\ last.ip.kind = "V6"
  /\ nreloads = 1
  /\ bucket_configs[last.type].capacity = 0
  /\ last.created = <<FALSE, FALSE, TRUE>>
  /\ GroupAt(Storage, PathsOf(last.ip)[1]).total[last.type].tokens > 0

----------------------------------------------------------------------------
(* C36 *)

\* a limit or an interval as it arrives in a BucketConfig
NegativeAsZero(x) == IF x < 0 THEN 0 ELSE x

\* C36: the conversion of a RateLimitConfig yields, for each action type, the
\* BucketConfig made of that action's own limit and interval and of no other
\* field (message with message_per_second, post with post_per_second, and so
\* on for every action type the cell has a checker for), and a negative limit
\* or interval arrives as 0, not as a negative value and not as an error.
C36_OwnPairNegativeAsZero ==
  (call.fn = "from" /\ call.done) =>
    LET r == call.rate_limit
        own(limit, interval) == BucketConfig(NegativeAsZero(limit), NegativeAsZero(interval))
    IN  /\ call.out =
             [Message |-> own(r.message, r.message_per_second),
              Post |-> own(r.post, r.post_per_second),
              Register |-> own(r.register, r.register_per_second),
              Image |-> own(r.image, r.image_per_second),
              Comment |-> own(r.comment, r.comment_per_second),
              Search |-> own(r.search, r.search_per_second),
              ImportUserSettings |-> own(r.import_user_settings,
                                         r.import_user_settings_per_second)]
        /\ ActionType \subseteq DOMAIN call.out
        /\ \A t \in DOMAIN call.out :
             call.out[t].capacity >= 0 /\ call.out[t].secs_to_refill >= 0

\* settings with a negative limit for posts and a negative interval for
\* comments were converted: both arrive as 0, the other fields as they are
C36_Witness ==
  /\ call.fn = "from" /\ call.done
  /\ call.rate_limit.post = -1 /\ call.rate_limit.comment_per_second = -1
  /\ call.out["Post"] = BucketConfig(0, 300)
  /\ call.out["Comment"] = BucketConfig(6, 0)
  /\ call.out["Message"] = BucketConfig(180, 60)

============================================================================
